---------------------------- MODULE Spec2Model ----------------------------
(***************************************************************************)
(* A model of two runtime cores of the compiler framework:                 *)
(*   - the VM executable container and its binary codec                    *)
(*     (src/src/runtime/vm/executable.cc);                                 *)
(*   - the stack-based structural equality engine                          *)
(*     (src/src/node/structural_equal.cc).                                 *)
(* Strings and blobs are sequences of bytes (0..255).  Integers are the    *)
(* model's integers; every integer the model draws fits 32 bits and is     *)
(* written in the width the code writes it (4 or 8 bytes, little endian,   *)
(* two's complement).                                                      *)
(***************************************************************************)
EXTENDS Integers, Sequences, FiniteSets, TLC

VARIABLES
  exec,          \* the VMExecutable under construction / being saved
  blob,          \* the byte stream handed between SaveToBinary and LoadFromBinary
  loaded,        \* outcome of the last LoadFromBinary
  xpc,           \* position of the executable scenario
  patch,         \* the last SetInstructionData call: its arguments and outcome
  out,           \* the last Stats / AsText / AsPython call: its subject and outcome
  ndeq,          \* the last NDArrayEqual call: its arguments and outcome
  eng,           \* state of one SEqualHandlerDefault::Impl and its call
  first_mismatch, \* the caller's Optional<ObjectPathPair> slot (*first_mismatch_)
  call           \* the last call a running reducer made on its SEqualReducer

vars == <<exec, blob, loaded, xpc, patch, out, ndeq, eng, first_mismatch, call>>

(***************************************************************************)
(* Bounds of the model.                                                    *)
(***************************************************************************)
MaxConsts == 2     \* longest constant pool drawn
MaxStack == 18     \* deepest task stack explored (cyclic graphs grow it forever)
MaxCut == 12       \* most bytes a truncation takes off the end of a blob

----------------------------------------------------------------------------
(***************************************************************************)
(* Binary I/O primitives (dmlc::Stream over a std::string).                *)
(***************************************************************************)
Pow256(k) == IF k = 0 THEN 1 ELSE IF k = 1 THEN 256 ELSE IF k = 2 THEN 65536 ELSE 16777216

\* byte k (0 = least significant) of the two's complement image of v
ByteOf(v, k) ==
  IF k >= 4 THEN (IF v < 0 THEN 255 ELSE 0)
  ELSE IF v >= 0 THEN (v \div Pow256(k)) % 256
  ELSE 255 - ((((-v) - 1) \div Pow256(k)) % 256)

\* strm->Write(T) for an n-byte integer: little-endian bytes
WriteInt(v, n) == [k \in 1..n |-> ByteOf(v, k - 1)]

\* the largest magnitude the model's integers hold: a wider value read from a
\* stream saturates to it (as a size it exceeds every stream)
Wide == 16777216 * 127 + 16777215

\* v bound to the name F takes: the value is computed once
Bind(v, F(_)) == F(v)

\* the integer held by n little-endian bytes (signed)
ToInt(bs) ==
  IF Len(bs) <= 3
    THEN bs[1] + (IF Len(bs) >= 2 THEN 256 * bs[2] ELSE 0)
               + (IF Len(bs) >= 3 THEN 65536 * bs[3] ELSE 0)
  ELSE IF \E k \in 5..Len(bs) : bs[k] # (IF bs[Len(bs)] >= 128 THEN 255 ELSE 0)
    THEN (IF bs[Len(bs)] >= 128 THEN -Wide ELSE Wide)
  ELSE IF Len(bs) >= 5 /\ ((bs[4] >= 128) # (bs[Len(bs)] >= 128))
    THEN (IF bs[Len(bs)] >= 128 THEN -Wide ELSE Wide)
  ELSE bs[1] + 256 * bs[2] + 65536 * bs[3]
         + 16777216 * (IF bs[4] >= 128 THEN bs[4] - 256 ELSE bs[4])

Take(s, pos, n) == SubSeq(s, pos + 1, pos + n)

RECURSIVE Concat(_)
Concat(ss) == IF ss = <<>> THEN <<>> ELSE Head(ss) \o Concat(Tail(ss))

\* strm->Read(&x) for an n-byte integer: all n bytes or failure; a failed
\* read leaves the stream at its end and x unwritten (junk stands for it)
ReadInt(s, pos, n, junk) ==
  IF n <= Len(s) - pos
    THEN [ok |-> TRUE, val |-> ToInt(Take(s, pos, n)), pos |-> pos + n]
    ELSE [ok |-> FALSE, val |-> junk, pos |-> Len(s)]

\* strm->Read(ptr, size): the raw read returns the number of bytes read
RawRead(s, pos, n, junk) ==
  IF n <= Len(s) - pos
    THEN [nread |-> n, val |-> ToInt(Take(s, pos, n)), pos |-> pos + n]
    ELSE [nread |-> Len(s) - pos, val |-> junk, pos |-> Len(s)]

\* strm->Write(std::string): u64 length, then the bytes
WriteString(str) == WriteInt(Len(str), 8) \o str

\* strm->Read(std::string*): u64 length, then the bytes; short data is a failure
ReadString(s, pos) ==
  Bind(ReadInt(s, pos, 8, 0), LAMBDA h :
    IF h.ok /\ h.val >= 0 /\ h.val <= Len(s) - h.pos
      THEN [ok |-> TRUE, val |-> Take(s, h.pos, h.val), pos |-> h.pos + h.val]
      ELSE [ok |-> FALSE, val |-> <<>>, pos |-> Len(s)])

\* what strm->Read(std::string*) leaves in the string whether or not it
\* succeeds: resized to the announced length, filled with what the stream
\* still holds, zero beyond it
StringAfterRead(s, pos) ==
  Bind(ReadInt(s, pos, 8, 0), LAMBDA h :
    IF ~h.ok \/ h.val < 0 THEN <<>>
    ELSE IF h.val <= Len(s) - h.pos THEN Take(s, h.pos, h.val)
    ELSE Take(s, h.pos, Len(s) - h.pos) \o [k \in 1..(h.val - (Len(s) - h.pos)) |-> 0])

\* strm->Write(std::vector<int64>): u64 size, then the elements
WriteIntVec(v) == WriteInt(Len(v), 8) \o Concat([k \in 1..Len(v) |-> WriteInt(v[k], 8)])

ReadIntVec(s, pos) ==
  Bind(ReadInt(s, pos, 8, 0), LAMBDA h :
    IF ~h.ok \/ h.val < 0 \/ h.val > (Len(s) - h.pos) \div 8
      THEN [ok |-> FALSE, val |-> <<>>, pos |-> Len(s)]
      ELSE [ok |-> TRUE,
            val |-> [k \in 1..h.val |-> ToInt(Take(s, h.pos + 8 * (k - 1), 8))],
            pos |-> h.pos + 8 * h.val])

\* strm->Write(std::vector<std::string>)
WriteStringVec(v) == WriteInt(Len(v), 8) \o Concat([k \in 1..Len(v) |-> WriteString(v[k])])

RECURSIVE ReadStrings(_, _, _, _)
ReadStrings(s, pos, n, acc) ==
  IF n = 0 THEN [ok |-> TRUE, val |-> acc, pos |-> pos]
  ELSE Bind(ReadString(s, pos), LAMBDA r :
         IF ~r.ok THEN [ok |-> FALSE, val |-> acc, pos |-> Len(s)]
         ELSE ReadStrings(s, r.pos, n - 1, Append(acc, r.val)))

ReadStringVec(s, pos) ==
  Bind(ReadInt(s, pos, 8, 0), LAMBDA h :
    IF ~h.ok \/ h.val < 0 \/ h.val > Len(s) THEN [ok |-> FALSE, val |-> <<>>, pos |-> Len(s)]
    ELSE ReadStrings(s, h.pos, h.val, <<>>))

----------------------------------------------------------------------------
(***************************************************************************)
(* The executable: constants, function table, instruction stream.          *)
(***************************************************************************)
\* type tags of the constant pool (ffi::TypeIndex), one registry for both ends
kTVMFFINDArray == 0
kTVMFFIShape == 1
kTVMFFIStr == 2
kTVMFFIInt == 3
kTVMFFIFloat == 4
kTVMFFIDataType == 5

\* VMFuncInfo::FuncKind
kPackedFunc == 0
kVMFunc == 1
kVMTIRFunc == 2

\* kTVMVMBytecodeMagic = 0xD225DE2F4214151D as the eight bytes Write puts out
kTVMVMBytecodeMagic == <<29, 21, 20, 66, 47, 222, 37, 210>>

\* VM_VERSION, "0.14"
VM_VERSION == <<48, 46, 49, 52>>

NoDType == [code |-> 0, bits |-> 0, lanes |-> 0]

\* one cell of the constant pool (an ffi::Any holding one of six kinds)
Const(kind, shape, dtype, bytes, val) ==
  [kind |-> kind, shape |-> shape, dtype |-> dtype, bytes |-> bytes, val |-> val]

NDArrayC(shape, dtype, data) == Const("NDArray", shape, dtype, data, 0)
ShapeC(shape) == Const("Shape", shape, NoDType, <<>>, 0)
StringC(str) == Const("String", <<>>, NoDType, str, 0)
IntC(v) == Const("Int", <<>>, NoDType, <<>>, v)
FloatC(bits) == Const("Float", <<>>, NoDType, bits, 0)
DataTypeC(dtype) == Const("DataType", <<>>, dtype, <<>>, 0)

FuncInfo(kind, name, start, end, nargs, rsize, params) ==
  [kind |-> kind, name |-> name, start_instr |-> start, end_instr |-> end,
   num_args |-> nargs, register_file_size |-> rsize, param_names |-> params]

\* strm->Write(DLDataType): {code:u8, bits:u8, lanes:u16}
WriteDType(dt) == <<dt.code, dt.bits>> \o WriteInt(dt.lanes, 2)

ReadDType(s, pos, junk) ==
  IF 4 <= Len(s) - pos
    THEN [ok |-> TRUE,
          val |-> [code |-> s[pos + 1], bits |-> s[pos + 2],
                   lanes |-> s[pos + 3] + 256 * s[pos + 4]],
          pos |-> pos + 4]
    ELSE [ok |-> FALSE, val |-> [code |-> junk, bits |-> junk, lanes |-> junk],
          pos |-> Len(s)]

\* runtime::SaveDLTensor: the tensor's own blob: rank, dtype, dimensions,
\* byte size of the data, data
SaveDLTensor(c) ==
  WriteInt(Len(c.shape), 4) \o WriteDType(c.dtype)
    \o Concat([k \in 1..Len(c.shape) |-> WriteInt(c.shape[k], 8)])
    \o WriteInt(Len(c.bytes), 8) \o c.bytes

\* NDArray::Load: every read checked, failure is fatal
NDArrayLoad(s, pos) ==
  Bind(ReadInt(s, pos, 4, 0), LAMBDA nd :
  Bind(ReadDType(s, nd.pos, 0), LAMBDA dt :
    IF ~nd.ok \/ ~dt.ok \/ nd.val < 0 \/ nd.val > (Len(s) - dt.pos) \div 8
      THEN [ok |-> FALSE, val |-> NDArrayC(<<>>, NoDType, <<>>), pos |-> Len(s)]
    ELSE Bind(ReadInt(s, dt.pos + 8 * nd.val, 8, 0), LAMBDA sz :
      IF ~sz.ok \/ sz.val < 0 \/ sz.val > Len(s) - sz.pos
        THEN [ok |-> FALSE, val |-> NDArrayC(<<>>, NoDType, <<>>), pos |-> Len(s)]
        ELSE [ok |-> TRUE,
              val |-> NDArrayC([k \in 1..nd.val |-> ToInt(Take(s, dt.pos + 8 * (k - 1), 8))],
                               dt.val, Take(s, sz.pos, sz.val)),
              pos |-> sz.pos + sz.val])))

SaveHeader == kTVMVMBytecodeMagic \o WriteString(VM_VERSION)

VMFuncInfoSave(f) ==
  WriteInt(f.kind, 4) \o WriteString(f.name) \o WriteInt(f.start_instr, 8)
    \o WriteInt(f.end_instr, 8) \o WriteInt(f.num_args, 8)
    \o WriteInt(f.register_file_size, 8) \o WriteStringVec(f.param_names)

SaveGlobalSection(e) ==
  WriteInt(Len(e.func_table), 8)
    \o Concat([k \in 1..Len(e.func_table) |-> VMFuncInfoSave(e.func_table[k])])

\* one constant: the 32-bit tag, then the payload of its kind
SaveConstant(c) ==
  IF c.kind = "NDArray" THEN WriteInt(kTVMFFINDArray, 4) \o SaveDLTensor(c)
  ELSE IF c.kind = "Shape"
    THEN WriteInt(kTVMFFIShape, 4) \o WriteInt(Len(c.shape), 8)
           \o Concat([k \in 1..Len(c.shape) |-> WriteInt(c.shape[k], 8)])
  ELSE IF c.kind = "String"
    THEN WriteInt(kTVMFFIStr, 4) \o WriteInt(Len(c.bytes), 8) \o c.bytes
  ELSE IF c.kind = "Int" THEN WriteInt(kTVMFFIInt, 4) \o WriteInt(c.val, 8)
  ELSE IF c.kind = "Float" THEN WriteInt(kTVMFFIFloat, 4) \o c.bytes
  ELSE WriteInt(kTVMFFIDataType, 4) \o WriteDType(c.dtype)

SaveConstantSection(e) ==
  WriteInt(Len(e.constants), 8)
    \o Concat([k \in 1..Len(e.constants) |-> SaveConstant(e.constants[k])])

\* an ExecWord (64 bits) as its top byte, the byte below it, and the low 48
\* bits as a signed integer: an Instruction::Arg keeps its kind in the top byte
Word(hi, mid, lo) == [hi |-> hi, mid |-> mid, lo |-> lo]

\* the ExecWord holding the plain integer x (an opcode, a register, an offset)
W(x) == IF x < 0 THEN Word(255, 255, x) ELSE Word(0, 0, x)

WriteWord(w) == WriteInt(w.lo, 6) \o <<w.mid, w.hi>>

ReadWord(bs) == Word(bs[8], bs[7], ToInt(SubSeq(bs, 1, 6)))

\* strm->Write(std::vector<ExecWord>)
WriteWordVec(v) == WriteInt(Len(v), 8) \o Concat([k \in 1..Len(v) |-> WriteWord(v[k])])

ReadWordVec(s, pos) ==
  Bind(ReadInt(s, pos, 8, 0), LAMBDA h :
    IF ~h.ok \/ h.val < 0 \/ h.val > (Len(s) - h.pos) \div 8
      THEN [ok |-> FALSE, val |-> <<>>, pos |-> Len(s)]
      ELSE [ok |-> TRUE,
            val |-> [k \in 1..h.val |-> ReadWord(Take(s, h.pos + 8 * (k - 1), 8))],
            pos |-> h.pos + 8 * h.val])

\* SaveCodeSection writing the instruction data before the offsets
SaveCodeSectionDataFirst(e) == WriteWordVec(e.instr_data) \o WriteIntVec(e.instr_offset)

SaveCodeSection(e) == WriteIntVec(e.instr_offset) \o WriteWordVec(e.instr_data)

\* the bytes SaveToBinary hands to stream->Write: one length-prefixed string
SaveToBinary(e) ==
  WriteString(SaveHeader \o SaveGlobalSection(e) \o SaveConstantSection(e)
                \o SaveCodeSection(e))

----------------------------------------------------------------------------
(***************************************************************************)
(* Loading.  A load ends "ok" with an executable or "fatal" with the        *)
(* section STREAM_CHECK / LOG(FATAL) names; read lists the sections whose   *)
(* loader was entered, in order.                                            *)
(***************************************************************************)
EmptyExec ==
  [constants |-> <<>>, func_table |-> <<>>, func_map |-> <<>>,
   instr_offset |-> <<>>, instr_data |-> <<>>]

Fatal(section, read) ==
  [status |-> "fatal", section |-> section, read |-> read, exec |-> EmptyExec]

\* LoadHeader: "" when both checks pass, else the section named
\* LoadHeader without the comparison of the version read
LoadHeaderAnyVersion(s, pos) ==
  IF 8 > Len(s) - pos THEN [section |-> "header", pos |-> Len(s)]
  ELSE IF Take(s, pos, 8) # kTVMVMBytecodeMagic THEN [section |-> "header", pos |-> pos + 8]
  ELSE Bind(ReadString(s, pos + 8), LAMBDA v :
         IF ~v.ok THEN [section |-> "version", pos |-> v.pos]
         ELSE [section |-> "", pos |-> v.pos])

LoadHeader(s, pos) ==
  IF 8 > Len(s) - pos THEN [section |-> "header", pos |-> Len(s)]
  ELSE IF Take(s, pos, 8) # kTVMVMBytecodeMagic THEN [section |-> "header", pos |-> pos + 8]
  ELSE Bind(ReadString(s, pos + 8), LAMBDA v :
         IF ~v.ok THEN [section |-> "version", pos |-> v.pos]
         ELSE IF v.val # VM_VERSION THEN [section |-> "version", pos |-> v.pos]
         ELSE [section |-> "", pos |-> v.pos])

VMFuncInfoLoad(s, pos) ==
  Bind(ReadInt(s, pos, 4, 0), LAMBDA k :
  Bind(ReadString(s, k.pos), LAMBDA nm :
  Bind(ReadInt(s, nm.pos, 8, 0), LAMBDA st :
  Bind(ReadInt(s, st.pos, 8, 0), LAMBDA en :
  Bind(ReadInt(s, en.pos, 8, 0), LAMBDA na :
  Bind(ReadInt(s, na.pos, 8, 0), LAMBDA rs :
  Bind(ReadStringVec(s, rs.pos), LAMBDA pn :
    [ok |-> k.ok /\ nm.ok /\ st.ok /\ en.ok /\ na.ok /\ rs.ok /\ pn.ok,
     val |-> FuncInfo(k.val, nm.val, st.val, en.val, na.val, rs.val, pn.val),
     pos |-> pn.pos])))))))

RECURSIVE ReadFuncs(_, _, _, _)
ReadFuncs(s, pos, n, acc) ==
  IF n = 0 THEN [ok |-> TRUE, val |-> acc, pos |-> pos]
  ELSE Bind(VMFuncInfoLoad(s, pos), LAMBDA r :
         IF ~r.ok THEN [ok |-> FALSE, val |-> acc, pos |-> Len(s)]
         ELSE ReadFuncs(s, r.pos, n - 1, Append(acc, r.val)))

\* the func_map set up with the 1-based position of each entry
RECURSIVE BuildFuncMapOneBased(_, _, _)
BuildFuncMapOneBased(ft, i, m) ==
  IF i > Len(ft) THEN m
  ELSE BuildFuncMapOneBased(ft, i + 1,
         [n \in (DOMAIN m) \cup {ft[i].name} |->
            IF n = ft[i].name THEN i ELSE m[n]])

\* this->func_map[func_table[i].name] = i, for i ascending (a later entry of
\* the same name overwrites an earlier one); indices are 0-based as in the code
RECURSIVE BuildFuncMap(_, _, _)
BuildFuncMap(ft, i, m) ==
  IF i > Len(ft) THEN m
  ELSE BuildFuncMap(ft, i + 1,
         [n \in (DOMAIN m) \cup {ft[i].name} |->
            IF n = ft[i].name THEN i - 1 ELSE m[n]])

\* strm->Read(&func_table), then the func_map set up from it
LoadGlobalSection(s, pos) ==
  Bind(ReadInt(s, pos, 8, 0), LAMBDA h :
  Bind(IF h.ok /\ h.val >= 0 /\ h.val <= Len(s)
         THEN ReadFuncs(s, h.pos, h.val, <<>>)
         ELSE [ok |-> FALSE, val |-> <<>>, pos |-> Len(s)], LAMBDA r :
    [ok |-> r.ok, func_table |-> r.val,
     func_map |-> BuildFuncMap(r.val, 1, <<>>), pos |-> r.pos]))

\* the unchecked element reads of a Shape / String payload: a vector of n
\* zero-initialised elements, each overwritten by a read that succeeds
ReadElems(s, pos, n, w) ==
  [val |-> [k \in 1..n |-> IF k <= (Len(s) - pos) \div w
                             THEN ToInt(Take(s, pos + w * (k - 1), w)) ELSE 0],
   pos |-> IF n <= (Len(s) - pos) \div w THEN pos + w * n ELSE Len(s)]

\* LoadConstant taking a tag it does not know for an integer
LoadConstantUnknownAsInt(s, pos, tag, junk) ==
  IF tag = kTVMFFINDArray THEN
    Bind(NDArrayLoad(s, pos), LAMBDA r :
      [err |-> IF r.ok THEN "" ELSE "tensor", val |-> r.val, pos |-> r.pos])
  ELSE IF tag = kTVMFFIShape THEN
    Bind(ReadInt(s, pos, 8, junk), LAMBDA sz :
    Bind(ReadElems(s, sz.pos, sz.val, 8), LAMBDA d :
      [err |-> "", val |-> ShapeC(d.val), pos |-> d.pos]))
  ELSE IF tag = kTVMFFIDataType THEN
    Bind(ReadDType(s, pos, junk), LAMBDA r :
      [err |-> "", val |-> DataTypeC(r.val), pos |-> r.pos])
  ELSE IF tag = kTVMFFIStr THEN
    Bind(ReadInt(s, pos, 8, junk), LAMBDA sz :
    Bind(ReadElems(s, sz.pos, sz.val, 1), LAMBDA d :
      [err |-> "", val |-> StringC(d.val), pos |-> d.pos]))
  ELSE IF tag = kTVMFFIFloat THEN
    [err |-> "",
     val |-> FloatC(IF 8 <= Len(s) - pos THEN Take(s, pos, 8) ELSE [k \in 1..8 |-> junk]),
     pos |-> IF 8 <= Len(s) - pos THEN pos + 8 ELSE Len(s)]
  ELSE Bind(ReadInt(s, pos, 8, junk), LAMBDA r :
      [err |-> "", val |-> IntC(r.val), pos |-> r.pos])

\* one constant of LoadConstantSection, after its tag; junk is what an
\* unchecked failed read leaves in its (uninitialised) target
LoadConstant(s, pos, tag, junk) ==
  IF tag = kTVMFFINDArray THEN
    Bind(NDArrayLoad(s, pos), LAMBDA r :
      [err |-> IF r.ok THEN "" ELSE "tensor", val |-> r.val, pos |-> r.pos])
  ELSE IF tag = kTVMFFIShape THEN
    Bind(ReadInt(s, pos, 8, junk), LAMBDA sz :
    Bind(ReadElems(s, sz.pos, sz.val, 8), LAMBDA d :
      [err |-> "", val |-> ShapeC(d.val), pos |-> d.pos]))
  ELSE IF tag = kTVMFFIDataType THEN
    Bind(ReadDType(s, pos, junk), LAMBDA r :
      [err |-> "", val |-> DataTypeC(r.val), pos |-> r.pos])
  ELSE IF tag = kTVMFFIStr THEN
    Bind(ReadInt(s, pos, 8, junk), LAMBDA sz :
    Bind(ReadElems(s, sz.pos, sz.val, 1), LAMBDA d :
      [err |-> "", val |-> StringC(d.val), pos |-> d.pos]))
  ELSE IF tag = kTVMFFIInt THEN
    Bind(ReadInt(s, pos, 8, junk), LAMBDA r :
      [err |-> "", val |-> IntC(r.val), pos |-> r.pos])
  ELSE IF tag = kTVMFFIFloat THEN
    [err |-> "",
     val |-> FloatC(IF 8 <= Len(s) - pos THEN Take(s, pos, 8) ELSE [k \in 1..8 |-> junk]),
     pos |-> IF 8 <= Len(s) - pos THEN pos + 8 ELSE Len(s)]
  ELSE [err |-> "Constant pool can only contain", val |-> IntC(0), pos |-> pos]

RECURSIVE LoadConstants(_, _, _, _, _)
LoadConstants(s, pos, n, acc, junk) ==
  IF n = 0 THEN [err |-> "", val |-> acc, pos |-> pos]
  ELSE Bind(RawRead(s, pos, 4, junk), LAMBDA t :
         IF t.nread = 0 THEN [err |-> "constant", val |-> acc, pos |-> t.pos]
         ELSE Bind(LoadConstant(s, t.pos, t.val, junk), LAMBDA c :
                IF c.err # "" THEN [err |-> c.err, val |-> acc, pos |-> c.pos]
                ELSE LoadConstants(s, c.pos, n - 1, Append(acc, c.val), junk)))

LoadConstantSection(s, pos, junk) ==
  Bind(RawRead(s, pos, 8, junk), LAMBDA sz :
    IF sz.nread = 0 THEN [err |-> "constant", val |-> <<>>, pos |-> sz.pos]
    ELSE LoadConstants(s, sz.pos, sz.val, <<>>, junk))

LoadCodeSection(s, pos) ==
  Bind(ReadIntVec(s, pos), LAMBDA o :
  Bind(ReadWordVec(s, o.pos), LAMBDA d :
    [err |-> IF ~o.ok THEN "instr offset" ELSE IF ~d.ok THEN "instr data" ELSE "",
     instr_offset |-> o.val, instr_data |-> d.val, pos |-> d.pos]))

\* VMExecutable::LoadFromBinary on the bytes of the stream
LoadFromBinary(stream, junk) ==
  Bind(StringAfterRead(stream, 0), LAMBDA code :
  Bind(LoadHeader(code, 0), LAMBDA h :
    IF h.section # "" THEN Fatal(h.section, <<"header">>)
    ELSE Bind(LoadGlobalSection(code, h.pos), LAMBDA g :
      IF ~g.ok THEN Fatal("Global Section", <<"header", "global">>)
      ELSE Bind(LoadConstantSection(code, g.pos, junk), LAMBDA c :
        IF c.err # "" THEN Fatal(c.err, <<"header", "global", "constant">>)
        ELSE Bind(LoadCodeSection(code, c.pos), LAMBDA k :
          IF k.err # "" THEN Fatal(k.err, <<"header", "global", "constant", "code">>)
          ELSE [status |-> "ok", section |-> "",
                read |-> <<"header", "global", "constant", "code">>,
                exec |-> [constants |-> c.val, func_table |-> g.func_table,
                          func_map |-> g.func_map, instr_offset |-> k.instr_offset,
                          instr_data |-> k.instr_data]])))))

----------------------------------------------------------------------------
(***************************************************************************)
(* The executables the model draws.                                        *)
(***************************************************************************)
\* Opcode and Instruction::ArgKind
OpCall == 1
OpRet == 2
OpGoto == 3
OpIf == 4
kRegister == 0
kImmediate == 1
kConstIdx == 2
kFuncIdx == 3

\* Instruction::Arg(kind, value): kind in the top byte, value in the low 56 bits
Arg(kind, value) == Word(kind, IF value < 0 THEN 255 ELSE 0, value)

NameMain == <<109, 97, 105, 110>>
NameF == <<102>>
NameG == <<103, 48>>

ConstUniverse ==
  { IntC(7), IntC(-1), StringC(<<97, 98, 99>>), ShapeC(<<2, 3>>),
    DataTypeC([code |-> 2, bits |-> 32, lanes |-> 1]),
    FloatC(<<0, 0, 0, 0, 0, 0, 248, 63>>),
    NDArrayC(<<2>>, [code |-> 0, bits |-> 8, lanes |-> 1], <<5, 6>>) }

SeqsUpTo(S, n) == UNION {[1..k -> S] : k \in 0..n}

ConstPools == SeqsUpTo(ConstUniverse, MaxConsts)

\* code: main = [call f0 in: %0, i3 dst: %1; goto 1; ret %1], and no code
Programs ==
  { [instr_offset |-> <<>>, instr_data |-> <<>>],
    [instr_offset |-> <<0, 6, 8>>,
     instr_data |-> <<W(OpCall), W(1), W(0), W(2), Arg(kRegister, 0), Arg(kImmediate, 3),
                      W(OpGoto), W(-1), W(OpRet), W(1)>>] }

FuncTables ==
  { <<>>,
    <<FuncInfo(kPackedFunc, NameF, 0, 0, -1, 0, <<>>)>>,
    <<FuncInfo(kPackedFunc, NameF, 0, 0, -1, 0, <<>>),
      FuncInfo(kVMFunc, NameMain, 0, 3, 1, 2, <<<<120>>>>)>>,
    <<FuncInfo(kVMTIRFunc, NameG, 0, 0, 2, 0, <<>>),
      FuncInfo(kVMFunc, NameMain, 0, 3, 2, 3, <<<<120>>, <<121, 49>>>>)>> }

\* a function table that names a function twice, as a blob of another
\* producer may hold
TwiceNamed ==
  <<FuncInfo(kPackedFunc, NameF, 0, 0, -1, 0, <<>>),
    FuncInfo(kVMFunc, NameMain, 0, 0, 0, 1, <<>>),
    FuncInfo(kVMTIRFunc, NameF, 0, 0, 2, 0, <<>>)>>

\* the declaration of f, then g0 = [call f0 in: c[0], f[f], %vm dst: %void]
\* and main = [If %1, 2; goto -1; ret %1]
WithIfTable ==
  <<FuncInfo(kPackedFunc, NameF, 0, 0, -1, 0, <<>>),
    FuncInfo(kVMFunc, NameG, 0, 1, 0, 1, <<>>),
    FuncInfo(kVMFunc, NameMain, 1, 4, 1, 2, <<<<120>>>>)>>

WithIf ==
  [constants |-> <<IntC(7)>>,
   func_table |-> WithIfTable,
   func_map |-> BuildFuncMap(WithIfTable, 1, <<>>),
   instr_offset |-> <<0, 7, 10, 12>>,
   instr_data |-> <<W(OpCall), Word(0, 64, 0), W(0), W(3), Arg(kConstIdx, 0),
                    Arg(kFuncIdx, 0), Word(kRegister, 64, 1),
                    W(OpIf), W(1), W(2), W(OpGoto), W(-1), W(OpRet), W(1)>>]

\* an executable whose only function is of a kind after the three known
FutureKind ==
  [constants |-> <<>>,
   func_table |-> <<FuncInfo(kVMTIRFunc + 1, NameG, 0, 0, 0, 0, <<>>)>>,
   func_map |-> BuildFuncMap(<<FuncInfo(kVMTIRFunc + 1, NameG, 0, 0, 0, 0, <<>>)>>, 1, <<>>),
   instr_offset |-> <<>>, instr_data |-> <<>>]

\* a well-formed executable as its producer leaves it, one whose table names
\* a function twice, one with every opcode and argument kind, and one with a
\* function of a future kind
Executables ==
  { [constants |-> cs, func_table |-> ft, func_map |-> BuildFuncMap(ft, 1, <<>>),
     instr_offset |-> p.instr_offset, instr_data |-> p.instr_data] :
      cs \in ConstPools, ft \in FuncTables, p \in Programs }
    \cup { [constants |-> <<>>, func_table |-> TwiceNamed,
            func_map |-> BuildFuncMap(TwiceNamed, 1, <<>>),
            instr_offset |-> <<>>, instr_data |-> <<>>],
           WithIf, FutureKind }

NoLoad == [status |-> "none", section |-> "", read |-> <<>>, exec |-> EmptyExec]

EngOff == [pc |-> "off"]

----------------------------------------------------------------------------
(***************************************************************************)
(* Disassembly.  A text is a sequence of lines and a line a sequence of     *)
(* tokens, one token per value streamed: a literal, an integer as           *)
(* std::to_string / operator<< prints it, a name, or a joined string with   *)
(* its parts.  width is the std::setw in force (0: none); literals are      *)
(* written with their padding.                                              *)
(***************************************************************************)
Tok(form, s, w, name, parts, width) ==
  [form |-> form, s |-> s, w |-> w, name |-> name, parts |-> parts, width |-> width]

Lit(s) == Tok("lit", s, W(0), <<>>, <<>>, 0)
Num(w) == Tok("num", "", w, <<>>, <<>>, 0)
Str(name) == Tok("str", "", W(0), name, <<>>, 0)
Joined(parts, width) == Tok("join", "", W(0), <<>>, parts, width)

\* Instruction::kVoidRegister = 1 << 54 and Instruction::kVMRegister = that + 1
kVoidRegister == Word(0, 64, 0)
kVMRegister == Word(0, 64, 1)

\* the word is a non-negative integer below 2^48, and its value
IsPlain(w) == w.hi = 0 /\ w.mid = 0 /\ w.lo >= 0

\* Instruction::Arg::kind() and value(): the top byte, and the low 56 bits
\* sign-extended
ArgKind(w) == w.hi
ArgValue(w) == Word(IF w.mid >= 128 THEN 255 ELSE 0, w.mid, w.lo)

\* the cast taking every word that is not Call, Ret or Goto for If
OpcodeOfLenient(w) ==
  IF w = W(OpCall) THEN "Call" ELSE IF w = W(OpRet) THEN "Ret"
  ELSE IF w = W(OpGoto) THEN "Goto" ELSE "If"

\* static_cast<Opcode>(word): the four opcodes are the words 1 to 4
OpcodeOf(w) ==
  IF w = W(OpCall) THEN "Call" ELSE IF w = W(OpRet) THEN "Ret"
  ELSE IF w = W(OpGoto) THEN "Goto" ELSE IF w = W(OpIf) THEN "If" ELSE "none"

\* what a read outside instr_offset or instr_data can do: the process dies,
\* or the word read is no opcode, or it decodes as some instruction
WildReads == {"segv", "fatal", "ret"}

Instr(op, dst, func_idx, num_args, args, result, pc_offset, cond, false_offset) ==
  [status |-> "ok", op |-> op, dst |-> dst, func_idx |-> func_idx,
   num_args |-> num_args, args |-> args, result |-> result,
   pc_offset |-> pc_offset, cond |-> cond, false_offset |-> false_offset]

NoInstr(status) ==
  [status |-> status, op |-> "none", dst |-> W(0), func_idx |-> W(0), num_args |-> 0,
   args |-> 0, result |-> W(0), pc_offset |-> W(0), cond |-> W(0), false_offset |-> W(0)]

WildInstr(wild) ==
  IF wild = "ret"
    THEN Instr("Ret", W(0), W(0), 0, 0, W(0), W(0), W(0), W(0))
    ELSE NoInstr(wild)

\* VMExecutable::GetInstruction(i): args is the position in instr_data (from
\* 0) of the first argument; nothing checks i, the offset or the fields
GetInstruction(e, i, wild) ==
  IF ~(i + 1 \in DOMAIN e.instr_offset) THEN WildInstr(wild)
  ELSE Bind(e.instr_offset[i + 1], LAMBDA offset :
    Bind([k \in 0..3 |-> IF offset + k + 1 \in DOMAIN e.instr_data
                           THEN e.instr_data[offset + k + 1] ELSE W(0)], LAMBDA d :
      IF ~(offset + 1 \in DOMAIN e.instr_data) THEN WildInstr(wild)
      ELSE IF OpcodeOf(d[0]) = "Call" THEN
        IF offset + 4 > Len(e.instr_data) THEN WildInstr(wild)
        ELSE Instr("Call", d[1], d[2], d[3].lo, offset + 4, W(0), W(0), W(0), W(0))
      ELSE IF OpcodeOf(d[0]) = "Ret" THEN
        IF offset + 2 > Len(e.instr_data) THEN WildInstr(wild)
        ELSE Instr("Ret", W(0), W(0), 0, 0, d[1], W(0), W(0), W(0))
      ELSE IF OpcodeOf(d[0]) = "Goto" THEN
        IF offset + 2 > Len(e.instr_data) THEN WildInstr(wild)
        ELSE Instr("Goto", W(0), W(0), 0, 0, W(0), d[1], W(0), W(0))
      ELSE IF OpcodeOf(d[0]) = "If" THEN
        IF offset + 3 > Len(e.instr_data) THEN WildInstr(wild)
        ELSE Instr("If", W(0), W(0), 0, 0, W(0), W(0), d[1], d[2])
      ELSE NoInstr("fatal")))

\* RegNameToStr(reg)
RegNameToStr(reg) ==
  IF reg = kVoidRegister THEN <<Lit("%void")>>
  ELSE IF reg = kVMRegister THEN <<Lit("%vm")>>
  ELSE <<Lit("%"), Num(reg)>>

\* get_func_name of AsText
TextFuncName(e, index) ==
  IF IsPlain(index) /\ index.lo < Len(e.func_table)
    THEN <<Str(e.func_table[index.lo + 1].name)>>
    ELSE <<Lit("unknown_func_index("), Num(index), Lit(")")>>

\* instr_to_str of AsText: the string of one argument, <<>> standing for the
\* fatal "Wrong instruction kind"
instr_to_str(e, arg) ==
  IF ArgKind(arg) = kRegister THEN RegNameToStr(ArgValue(arg))
  ELSE IF ArgKind(arg) = kImmediate THEN <<Lit("i"), Num(ArgValue(arg))>>
  ELSE IF ArgKind(arg) = kConstIdx THEN <<Lit("c["), Num(ArgValue(arg)), Lit("]")>>
  ELSE IF ArgKind(arg) = kFuncIdx
    THEN <<Lit("f[")>> \o TextFuncName(e, ArgValue(arg)) \o <<Lit("]")>>
  ELSE <<>>

\* StrJoin(items, offset, cnt, ", ", repr) on the strings of the arguments: a
\* negative cnt prints the first item alone
StrJoin(strs, cnt) ==
  IF cnt = 0 THEN <<>>
  ELSE Concat([k \in 1..(IF cnt < 0 THEN 1 ELSE cnt) |->
                 IF k = 1 THEN strs[k] ELSE <<Lit(", ")>> \o strs[k]])

\* the number of arguments StrJoin reads
ArgsRead(cnt) == IF cnt < 0 THEN 1 ELSE cnt

\* the arguments of a call lie inside instr_data
ArgsInside(e, instr) == instr.args + ArgsRead(instr.num_args) <= Len(e.instr_data)

\* the argument words StrJoin reads; one outside instr_data that does not
\* kill the process reads as register 0 here
ArgWords(e, instr) ==
  [k \in 1..ArgsRead(instr.num_args) |->
     IF instr.args + k \in DOMAIN e.instr_data THEN e.instr_data[instr.args + k] ELSE W(0)]

Rendered(line) == [status |-> "ok", lines |-> <<line>>]
NotRendered(status) == [status |-> status, lines |-> <<>>]

\* one pass of the instruction loop of AsText
TextInstr(e, idx, wild) ==
  Bind(GetInstruction(e, idx, wild), LAMBDA instr :
    IF instr.status # "ok" THEN NotRendered(instr.status)
    ELSE IF instr.op = "Call" THEN
      IF ~ArgsInside(e, instr) /\ wild # "ret" THEN NotRendered(wild)
      ELSE IF \E k \in DOMAIN ArgWords(e, instr) :
                instr_to_str(e, ArgWords(e, instr)[k]) = <<>>
        THEN NotRendered("fatal")
      ELSE Rendered(<<Lit("  "), Lit("call  ")>>
             \o <<Joined(TextFuncName(e, instr.func_idx), 16), Lit(" in: "),
                  Joined(StrJoin([k \in DOMAIN ArgWords(e, instr) |->
                                    instr_to_str(e, ArgWords(e, instr)[k])],
                                 instr.num_args), 12),
                  Lit(" dst: ")>>
             \o RegNameToStr(instr.dst))
    ELSE IF instr.op = "Ret"
      THEN Rendered(<<Lit("  "), Lit("ret   ")>> \o RegNameToStr(instr.result))
    ELSE IF instr.op = "Goto"
      THEN Rendered(<<Lit("  "), Lit("goto  "), Num(instr.pc_offset)>>)
    ELSE Rendered(<<Lit("  "), Lit("If    ")>> \o RegNameToStr(instr.cond)
                    \o <<Lit(", "), Num(instr.false_offset)>>))

\* the results of a loop, in order: the lines written when every pass is
\* rendered, else the outcome of the first pass that is not
Passes(rs) ==
  IF \A k \in DOMAIN rs : rs[k].status = "ok"
    THEN [status |-> "ok", lines |-> Concat([k \in DOMAIN rs |-> rs[k].lines])]
    ELSE NotRendered(rs[CHOOSE k \in DOMAIN rs :
                          /\ rs[k].status # "ok"
                          /\ \A j \in 1..(k - 1) : rs[j].status = "ok"].status)

\* the instruction loop running from end_instr - 1 down to start_instr
InstrRangeDescending(gfunc) ==
  [k \in 1..(gfunc.end_instr - gfunc.start_instr) |-> gfunc.end_instr - k]

\* the instruction numbers of a function: size_t idx from start_instr up to
\* end_instr
InstrRange(gfunc) ==
  [k \in 1..(gfunc.end_instr - gfunc.start_instr) |-> gfunc.start_instr + k - 1]

\* one pass of the function loop of AsText
TextFunc(e, gfunc, wild) ==
  IF gfunc.kind = kPackedFunc
    THEN [status |-> "ok",
          lines |-> <<<<Lit("@"), Str(gfunc.name), Lit(" packed_func;")>>, <<>>>>]
  ELSE IF gfunc.kind = kVMTIRFunc
    THEN [status |-> "ok",
          lines |-> <<<<Lit("@"), Str(gfunc.name), Lit(" num_inputs="),
                        Num(W(gfunc.num_args)), Lit(" vm_tir_func;")>>, <<>>>>]
  ELSE IF gfunc.kind # kVMFunc THEN NotRendered("fatal")
  ELSE Bind(Passes([k \in DOMAIN InstrRange(gfunc) |->
                      TextInstr(e, InstrRange(gfunc)[k], wild)]), LAMBDA body :
         IF body.status # "ok" THEN body
         ELSE [status |-> "ok",
               lines |-> <<<<Lit("@"), Str(gfunc.name), Lit(":")>>>>
                           \o body.lines \o <<<<>>>>])

\* VMExecutable::AsText()
AsText(e, wild) ==
  Passes([fidx \in DOMAIN e.func_table |-> TextFunc(e, e.func_table[fidx], wild)])

\* get_func_name of AsPython
PyFuncName(e, index) ==
  IF IsPlain(index) /\ index.lo < Len(e.func_table)
    THEN <<Lit("\""), Str(e.func_table[index.lo + 1].name), Lit("\"")>>
    ELSE <<Lit("ib.unknown_func_index("), Num(index), Lit(")")>>

\* arg_to_py_str of AsPython: <<>> stands for the fatal "Wrong instruction kind"
arg_to_py_str(e, arg) ==
  IF ArgKind(arg) = kRegister THEN
    IF ArgValue(arg) = kVMRegister THEN <<Lit("ib.r(vm)")>>
    ELSE <<Lit("ib.r("), Num(ArgValue(arg)), Lit(")")>>
  ELSE IF ArgKind(arg) = kImmediate THEN <<Lit("ib.imm("), Num(ArgValue(arg)), Lit(")")>>
  ELSE IF ArgKind(arg) = kConstIdx THEN <<Lit("ib.c("), Num(ArgValue(arg)), Lit(")")>>
  ELSE IF ArgKind(arg) = kFuncIdx
    THEN <<Lit("ib.f(")>> \o PyFuncName(e, ArgValue(arg)) \o <<Lit(")")>>
  ELSE <<>>

\* one pass of the instruction loop of AsPython
PyInstr(e, idx, wild) ==
  Bind(GetInstruction(e, idx, wild), LAMBDA instr :
    IF instr.status # "ok" THEN NotRendered(instr.status)
    ELSE IF instr.op = "Call" THEN
      IF ~ArgsInside(e, instr) /\ wild # "ret" THEN NotRendered(wild)
      ELSE IF \E k \in DOMAIN ArgWords(e, instr) :
                arg_to_py_str(e, ArgWords(e, instr)[k]) = <<>>
        THEN NotRendered("fatal")
      ELSE Rendered(<<Lit("    ib.emit_call(")>> \o PyFuncName(e, instr.func_idx)
             \o <<Lit(", args=["),
                  Joined(StrJoin([k \in DOMAIN ArgWords(e, instr) |->
                                    arg_to_py_str(e, ArgWords(e, instr)[k])],
                                 instr.num_args), 0),
                  Lit("]")>>
             \o (IF instr.dst # kVoidRegister
                   THEN <<Lit(", dst=ib.r("), Num(instr.dst), Lit(")")>> ELSE <<>>)
             \o <<Lit(")")>>)
    ELSE IF instr.op = "Ret"
      THEN Rendered(<<Lit("    ib.emit_ret(ib.r("), Num(instr.result), Lit("))")>>)
    ELSE IF instr.op = "Goto"
      THEN Rendered(<<Lit("    ib.emit_goto("), Num(instr.pc_offset), Lit(")")>>)
    ELSE Rendered(<<Lit("    ib.emit_if(ib.r("), Num(instr.cond), Lit("), "),
                    Num(instr.false_offset), Lit(")")>>))

\* one pass of the function loop of AsPython
PyFunc(e, gfunc, wild) ==
  IF gfunc.kind = kPackedFunc THEN [status |-> "ok", lines |-> <<>>]
  ELSE IF gfunc.kind = kVMTIRFunc THEN [status |-> "ok", lines |-> <<>>]
  ELSE IF gfunc.kind # kVMFunc THEN NotRendered("fatal")
  ELSE Bind(Passes([k \in DOMAIN InstrRange(gfunc) |->
                      PyInstr(e, InstrRange(gfunc)[k], wild)]), LAMBDA body :
         IF body.status # "ok" THEN body
         ELSE [status |-> "ok",
               lines |-> <<<<Lit("with ib.function(\""), Str(gfunc.name),
                             Lit("\", num_inputs="), Num(W(gfunc.num_args)), Lit("):")>>>>
                           \o body.lines])

\* VMExecutable::AsPython()
AsPython(e, wild) ==
  Bind(Passes([fidx \in DOMAIN e.func_table |-> PyFunc(e, e.func_table[fidx], wild)]),
       LAMBDA funcs :
         IF funcs.status # "ok" THEN funcs
         ELSE [status |-> "ok", lines |-> <<<<Lit("ib = rx.Builder()")>>>> \o funcs.lines])

\* oss.seekp(-2, oss.cur) followed by a write: the last two characters
\* written are overwritten, which takes a trailing ", " away and cuts the
\* "e[" off a "shapetuple[" that nothing followed
SeekBack2(toks) ==
  IF toks # <<>> /\ toks[Len(toks)] = Lit(", ") THEN SubSeq(toks, 1, Len(toks) - 1)
  ELSE IF toks # <<>> /\ toks[Len(toks)] = Lit("shapetuple[")
    THEN SubSeq(toks, 1, Len(toks) - 1) \o <<Lit("shapetupl")>>
  ELSE toks

\* if (cond) oss.seekp(-2, oss.cur)
SeekBack2If(cond, toks) == IF cond THEN SeekBack2(toks) ELSE toks

\* one pass of the constant loop of Stats: the tokens written, or none and
\* status "fatal" for a cell that is none of the five kinds tested
StatsConstant(c) ==
  IF c.kind = "NDArray" THEN
    IF c.shape = <<>> THEN [status |-> "ok", toks |-> <<Lit("scalar"), Lit(", ")>>]
    ELSE [status |-> "ok",
          toks |-> SeekBack2(<<Lit("[")>>
                     \o Concat([k \in DOMAIN c.shape |-> <<Num(W(c.shape[k])), Lit(", ")>>]))
                   \o <<Lit("]"), Lit(", ")>>]
  ELSE IF c.kind = "Shape" THEN
    [status |-> "ok",
     toks |-> SeekBack2(<<Lit("shapetuple[")>>
                \o Concat([k \in DOMAIN c.shape |-> <<Num(W(c.shape[k])), Lit(", ")>>]))
              \o <<Lit("]"), Lit(", ")>>]
  ELSE IF c.kind = "String" THEN
    [status |-> "ok", toks |-> <<Lit("\""), Str(c.bytes), Lit("\""), Lit(", ")>>]
  ELSE IF c.kind = "Int" THEN
    [status |-> "ok", toks |-> <<Num(W(c.val)), Lit(", ")>>]
  ELSE IF c.kind = "DataType" THEN
    [status |-> "ok",
     toks |-> <<Tok("dtype", "", W(0), <<c.dtype.code, c.dtype.bits, c.dtype.lanes>>, <<>>, 0),
                Lit(", ")>>]
  ELSE [status |-> "fatal", toks |-> <<>>]

\* VMExecutable::Stats()
Stats(e) ==
  IF \E k \in DOMAIN e.constants : StatsConstant(e.constants[k]).status # "ok"
    THEN NotRendered("fatal")
    ELSE [status |-> "ok",
          lines |->
            << <<Lit("Relax VM executable statistics:")>>,
               SeekBack2If(e.constants # <<>>,
                 <<Lit("  Constant pool (# "), Num(W(Len(e.constants))), Lit("): [")>>
                  \o Concat([k \in DOMAIN e.constants |-> StatsConstant(e.constants[k]).toks]))
                 \o <<Lit("]")>>,
               SeekBack2If(DOMAIN e.func_map # {},
                 <<Lit("  Globals (#"), Num(W(Len(e.func_table))), Lit("): [")>>
                  \o Concat([k \in DOMAIN e.func_table |->
                               <<Str(e.func_table[k].name), Lit(", ")>>]))
                 \o <<Lit("]")>> >>]

NoPatch == [status |-> "none"]

NoOut == [op |-> "none", status |-> "none", lines |-> <<>>, of |-> EmptyExec]

NoCompare == [status |-> "none"]

NoCall == [op |-> "none", status |-> "none", arg |-> <<>>, ret |-> <<>>]

\* ICHECK_LT(x, size) of a signed Index x against the size_t length of a
\* vector: the comparison converts x to unsigned, so a negative x compares as
\* a value above every length
IndexLtSize(x, size) == x >= 0 /\ x < size

\* SetInstructionData with the second check made on signed values: a negative
\* index passes it, and the write lands outside instr_data
SetInstructionDataSigned(e, i, j, val) ==
  IF ~IndexLtSize(i, Len(e.instr_offset))
    THEN [status |-> "fatal", exec |-> e]
    ELSE Bind(e.instr_offset[i + 1], LAMBDA instr_idx :
           IF ~(instr_idx + j < Len(e.instr_data))
             THEN [status |-> "fatal", exec |-> e]
             ELSE [status |-> "ok",
                   exec |-> IF instr_idx + j + 1 \in DOMAIN e.instr_data
                              THEN [e EXCEPT !.instr_data[instr_idx + j + 1] = val]
                              ELSE e])

\* VMExecutable::SetInstructionData(i, j, val): the outcome and the executable
\* it leaves (indices of the code count from 0, those of a sequence from 1)
SetInstructionData(e, i, j, val) ==
  IF ~IndexLtSize(i, Len(e.instr_offset))
    THEN [status |-> "fatal", exec |-> e]
    ELSE Bind(e.instr_offset[i + 1], LAMBDA instr_idx :
           IF ~IndexLtSize(instr_idx + j, Len(e.instr_data))
             THEN [status |-> "fatal", exec |-> e]
             ELSE [status |-> "ok",
                   exec |-> [e EXCEPT !.instr_data[instr_idx + j + 1] = val]])

\* the instruction numbers, word numbers and the word a caller passes (a word
\* that is no opcode and whose top byte is no argument kind)
PatchInstrs == {-1, 0, 1, 2, 3}
PatchWords == {-1, 0, 2, 4}
PatchVals == {Word(7, 0, 5)}

\* the bytes of the header inside the outer length-prefixed string: the magic
\* (8), the version's length (8) and the version's bytes
HeaderBytes == 9..(8 + 8 + 8 + Len(VM_VERSION))
MagicBytes == 9..16

ExecInit ==
  /\ exec \in Executables
  /\ blob = <<>>
  /\ loaded = NoLoad
  /\ xpc = "built"
  /\ patch = NoPatch
  /\ out = NoOut
  /\ ndeq = NoCompare
  /\ eng = EngOff
  /\ first_mismatch = <<>>
  /\ call = NoCall

\* VMExecutable::SaveToBinary(stream)
DoSaveToBinary ==
  /\ xpc = "built"
  /\ blob' = SaveToBinary(exec)
  /\ xpc' = "saved"
  /\ UNCHANGED <<exec, loaded, patch, out, ndeq, eng, first_mismatch, call>>

\* the environment damages one byte of the saved header (one bit of it)
CorruptHeader ==
  /\ xpc = "saved"
  /\ \E i \in HeaderBytes, bit \in {1, 128} :
       blob' = [blob EXCEPT ![i] =
                  IF (blob[i] \div bit) % 2 = 1 THEN blob[i] - bit ELSE blob[i] + bit]
  /\ xpc' = "damaged"
  /\ UNCHANGED <<exec, loaded, patch, out, ndeq, eng, first_mismatch, call>>

\* the environment loses the last bytes of the saved blob
Truncate ==
  /\ xpc = "saved"
  /\ \E k \in 1..MaxCut :
       /\ k <= Len(blob)
       /\ blob' = SubSeq(blob, 1, Len(blob) - k)
  /\ xpc' = "truncated"
  /\ UNCHANGED <<exec, loaded, patch, out, ndeq, eng, first_mismatch, call>>

\* where the 32-bit tag of constant k starts in the blob saved for e: after
\* the outer length, the header, the global section, the constant count and
\* the constants before it
TagOffset(e, k) ==
  8 + Len(SaveHeader) + Len(SaveGlobalSection(e)) + 8
    + Len(Concat([j \in 1..(k - 1) |-> SaveConstant(e.constants[j])]))

\* tags that are none of the six of the constant pool
UnknownTags == {6, 200}

\* the environment replaces the tag of one constant by a tag the pool does
\* not know
CorruptTag ==
  /\ xpc = "saved"
  /\ \E k \in DOMAIN exec.constants, tag \in UnknownTags :
       blob' = [blob EXCEPT ![TagOffset(exec, k) + 1] = tag]
  /\ xpc' = "mistagged"
  /\ UNCHANGED <<exec, loaded, patch, out, ndeq, eng, first_mismatch, call>>

\* VMExecutable::LoadFromBinary(stream)
DoLoadFromBinary ==
  /\ xpc \in {"saved", "damaged", "truncated", "mistagged"}
  /\ \E junk \in {0, 1} : loaded' = LoadFromBinary(blob, junk)
  /\ xpc' = IF xpc = "saved" THEN "loaded"
            ELSE IF xpc = "damaged" THEN "rejected"
            ELSE IF xpc = "truncated" THEN "cut" ELSE "unknown"
  /\ UNCHANGED <<exec, blob, patch, out, ndeq, eng, first_mismatch, call>>

\* a caller patches one word of the code with VMExecutable::SetInstructionData
DoSetInstructionData ==
  /\ xpc = "built"
  /\ \E i \in PatchInstrs, j \in PatchWords, val \in PatchVals :
       Bind(SetInstructionData(exec, i, j, val), LAMBDA r :
         /\ exec' = r.exec
         /\ patch' = [status |-> r.status, i |-> i, j |-> j, val |-> val, before |-> exec])
  /\ xpc' = "patched"
  /\ UNCHANGED <<blob, loaded, out, ndeq, eng, first_mismatch, call>>

\* the executable is as built, or a SetInstructionData call has changed it
Built == xpc = "built" \/ (xpc = "patched" /\ patch.status = "ok")

\* a caller asks for VMExecutable::AsText()
DoAsText ==
  /\ Built
  /\ \E wild \in WildReads :
       Bind(AsText(exec, wild), LAMBDA r :
         out' = [op |-> "AsText", status |-> r.status, lines |-> r.lines, of |-> exec])
  /\ xpc' = "rendered"
  /\ UNCHANGED <<exec, blob, loaded, patch, ndeq, eng, first_mismatch, call>>

\* a caller asks for VMExecutable::AsPython()
DoAsPython ==
  /\ Built
  /\ \E wild \in WildReads :
       Bind(AsPython(exec, wild), LAMBDA r :
         out' = [op |-> "AsPython", status |-> r.status, lines |-> r.lines, of |-> exec])
  /\ xpc' = "rendered"
  /\ UNCHANGED <<exec, blob, loaded, patch, ndeq, eng, first_mismatch, call>>

\* a caller asks for VMExecutable::Stats(), of the executable built or of the
\* one a load has returned
DoStats ==
  /\ xpc = "built" \/ (xpc = "loaded" /\ loaded.status = "ok")
  /\ Bind(IF xpc = "loaded" THEN loaded.exec ELSE exec, LAMBDA e :
       Bind(Stats(e), LAMBDA r :
         out' = [op |-> "Stats", status |-> r.status, lines |-> r.lines, of |-> e]))
  /\ xpc' = "summed"
  /\ UNCHANGED <<exec, blob, loaded, patch, ndeq, eng, first_mismatch, call>>

ExecNext ==
  \/ DoSaveToBinary \/ CorruptHeader \/ Truncate \/ CorruptTag \/ DoLoadFromBinary
  \/ DoSetInstructionData \/ DoAsText \/ DoAsPython \/ DoStats

ExecSpec == ExecInit /\ [][ExecNext]_vars

----------------------------------------------------------------------------
(***************************************************************************)
(* The structural equality engine.                                          *)
(*                                                                          *)
(* Objects live in a heap; an ObjectRef is a heap index, 0 the undefined    *)
(* reference.  A node has a type, one primitive attribute and an ordered    *)
(* list of object-valued attributes.  An Optional is a sequence of length   *)
(* at most one.                                                             *)
(***************************************************************************)
Node(type, val, kids) == [type |-> type, val |-> val, kids |-> kids]

Heap ==
  << Node("Var", 0, <<>>),          \*  1  x
     Node("Var", 0, <<>>),          \*  2  y
     Node("Var", 1, <<>>),          \*  3  z, of another dtype
     Node("Arr", 0, <<1, 2>>),      \*  4  [x, y]
     Node("Arr", 0, <<2, 1>>),      \*  5  [y, x]
     Node("Op", 0, <<1, 2>>),       \*  6  x + y
     Node("Op", 0, <<2, 1>>),       \*  7  y + x
     Node("Fn", 0, <<4, 6>>),       \*  8  fn (x, y) { x + y }
     Node("Fn", 0, <<5, 6>>),       \*  9  fn (y, x) { x + y }
     Node("Op", 1, <<1, 2>>),       \* 10  x - y: node 6 with another leaf value
     Node("Op", 0, <<6, 10>>),      \* 11
     Node("Op", 0, <<6, 6>>),       \* 12  a shared child
     Node("Box", 0, <<6>>),         \* 13  a graph node around x + y
     Node("Box", 0, <<7>>),         \* 14  a graph node around y + x
     Node("Op", 0, <<13, 13>>),     \* 15  a shared graph node
     Node("Op", 0, <<13, 14>>),     \* 16
     Node("Op", 0, <<17, 1>>),      \* 17  a node that is its own child
     Node("Box", 0, <<19>>),        \* 18  a cycle through a graph node
     Node("Op", 0, <<18, 0>>),      \* 19
     Node("Arr", 0, <<10, 6>>),     \* 20
     Node("Arr", 0, <<6>>),         \* 21
     Node("Op", 0, <<1, 0>>),       \* 22  an undefined child
     Node("Op", 0, <<3, 2>>),       \* 23  z + y
     Node("Var", 0, <<>>),          \* 24  w
     Node("Let", 0, <<1, 6>>),      \* 25  let x in x + y
     Node("Let", 0, <<2, 7>>),      \* 26  let y in y + x
     Node("Op", 0, <<17, 0>>),      \* 27  the cycle of 17 as a child
     Node("Op", 0, <<28, 2>>),      \* 28  node 17 with y for x
     Node("Op", 0, <<2, 24>>),      \* 29  y + w
     Node("Op", 0, <<2, 2>>),       \* 30  y + y
     Node("For", 0, <<1, 6, 6>>),   \* 31  for x in x + y, serial: x + y
     Node("For", 1, <<1, 13, 6>>),  \* 32  another extent type, another kind
     Node("For", 1, <<3, 13, 6>>),  \* 33  and another loop variable dtype
     Node("Arr", 0, <<3, 6>>),      \* 34  [z, x + y]
     Node("Let", 0, <<7, 6>>) >>    \* 35  let (y + x) in x + y: a bound pattern

Nodes == 1..Len(Heap)

\* an ffi::Any at the root: an object, an integer or None
AnyObj(n) == [tag |-> Heap[n].type, obj |-> TRUE, v |-> n]
AnyInt(i) == [tag |-> "int", obj |-> FALSE, v |-> i]
AnyNone == [tag |-> "None", obj |-> FALSE, v |-> 0]

Roots == {AnyObj(n) : n \in Nodes} \cup {AnyInt(3), AnyInt(4), AnyNone}

\* ObjectPath: the segments after the root; ObjectPathPair
Seg(k, i) == [k |-> k, i |-> i]
RootPath == <<>>
PathPair(lp, rp) == [lhs_path |-> lp, rhs_path |-> rp]

\* struct Task, and its two constructors
Task(l, r, mfv, paths) ==
  [lhs |-> l, rhs |-> r, current_paths |-> paths, map_free_vars |-> mfv,
   children_expanded |-> FALSE, graph_equal |-> FALSE, force_fail |-> FALSE]

\* Task(ForceFailTag, paths): map_free_vars is left unset and is never read
ForceFailTask(paths) ==
  [lhs |-> 0, rhs |-> 0, current_paths |-> <<paths>>, map_free_vars |-> FALSE,
   children_expanded |-> FALSE, graph_equal |-> FALSE, force_fail |-> TRUE]

\* what one reducer invocation has done so far: the tasks it enqueued, the
\* mismatch slot, whether it marked its task a graph node, what the last
\* comparison returned, and the fatal error raised, if any
Ctx(pending, fm) == [pending |-> pending, fm |-> fm, ge |-> FALSE, ret |-> TRUE, fatal |-> ""]

\* CheckResult leaving first_mismatch_ as it finds it
CheckResultNoRecord(e, c, result, paths) ==
  [c EXCEPT !.ret = result,
            !.fatal = IF e.assert_mode /\ ~result
                        THEN (IF e.tracing THEN "ValueError" ELSE e.ub)
                        ELSE c.fatal]

\* Impl::CheckResult: record the path of a failure, raise it in assert mode.
\* Without tracing first_mismatch_ is the null pointer, and the assert branch
\* reads through it: the outcome e.ub stands for
CheckResult(e, c, result, paths) ==
  [c EXCEPT !.ret = result,
            !.fm = IF e.tracing /\ ~result /\ c.fm = <<>> THEN paths ELSE c.fm,
            !.fatal = IF e.assert_mode /\ ~result
                        THEN (IF e.tracing THEN "ValueError" ELSE e.ub)
                        ELSE c.fatal]

\* the early-result rules with the same_as shortcut the code rules out
EarlyResultSameAs(e, l, r) ==
  IF l = r THEN "true"
  ELSE IF l = 0 \/ r = 0 THEN "false"
  ELSE IF Heap[l].type # Heap[r].type THEN "false"
  ELSE IF e.equal_map_lhs[l] # 0
    THEN (IF e.equal_map_lhs[l] = r THEN "true" ELSE "false")
  ELSE IF e.equal_map_rhs[r] # 0 THEN "false"
  ELSE "none"

\* the early-result rules of Impl::SEqualReduce: "true", "false" or "none"
EarlyResult(e, l, r) ==
  IF l = 0 /\ r = 0 THEN "true"
  ELSE IF l = 0 \/ r = 0 THEN "false"
  ELSE IF Heap[l].type # Heap[r].type THEN "false"
  ELSE IF e.equal_map_lhs[l] # 0
    THEN (IF e.equal_map_lhs[l] = r THEN "true" ELSE "false")
  ELSE IF e.equal_map_rhs[r] # 0 THEN "false"
  ELSE "none"

\* Impl::DeferFail
DeferFail(c, paths) == [c EXCEPT !.pending = Append(@, ForceFailTask(paths))]

\* SEqualReduce enqueueing its task without the caller's map_free_vars
SEqualReduceNoFlag(e, c, l, r, mfv, paths) ==
  Bind(EarlyResult(e, l, r), LAMBDA early :
    IF early = "true" THEN CheckResult(e, c, TRUE, paths)
    ELSE IF early = "false" THEN
      (IF e.tracing /\ e.defer_fails /\ paths # <<>>
         THEN CheckResult(e, DeferFail(c, paths[1]), TRUE, paths)
         ELSE CheckResult(e, c, FALSE, paths))
    ELSE CheckResult(e, [c EXCEPT !.pending = Append(@, Task(l, r, FALSE, paths))],
                     TRUE, paths))

\* SEqualReduce deferring a failure on fail deferral alone, traced or not
SEqualReduceDeferUntraced(e, c, l, r, mfv, paths) ==
  Bind(EarlyResult(e, l, r), LAMBDA early :
    IF early = "true" THEN CheckResult(e, c, TRUE, paths)
    ELSE IF early = "false" THEN
      (IF e.defer_fails
         THEN CheckResult(e, DeferFail(c, IF paths = <<>> THEN PathPair(RootPath, RootPath)
                                          ELSE paths[1]), TRUE, paths)
         ELSE CheckResult(e, c, FALSE, paths))
    ELSE CheckResult(e, [c EXCEPT !.pending = Append(@, Task(l, r, mfv, paths))],
                     TRUE, paths))

\* Impl::SEqualReduce(lhs, rhs, map_free_vars, current_paths)
SEqualReduce(e, c, l, r, mfv, paths) ==
  Bind(EarlyResult(e, l, r), LAMBDA early :
    IF early = "true" THEN CheckResult(e, c, TRUE, paths)
    ELSE IF early = "false" THEN
      (IF e.tracing /\ e.defer_fails /\ paths # <<>>
         THEN CheckResult(e, DeferFail(c, paths[1]), TRUE, paths)
         ELSE CheckResult(e, c, FALSE, paths))
    ELSE CheckResult(e, [c EXCEPT !.pending = Append(@, Task(l, r, mfv, paths))],
                     TRUE, paths))

\* SEqualReducer::ObjectAttrsEqual with the paths of the attribute
ObjectAttrsEqual(e, c, l, r, mfv, new_paths) ==
  IF ~e.tracing THEN SEqualReduce(e, c, l, r, mfv, <<>>)
  ELSE Bind(SEqualReduce(e, c, l, r, mfv, <<new_paths>>), LAMBDA d :
         IF d.ret \/ d.fatal # "" THEN d
         ELSE [d EXCEPT !.fm = IF @ = <<>> THEN <<new_paths>> ELSE @])

\* CompareAttributeValues recording its paths whatever the slot holds
CompareAttributeValuesOverwrite(e, c, a, b, paths) ==
  IF a = b THEN [c EXCEPT !.ret = TRUE]
  ELSE [c EXCEPT !.ret = FALSE,
                 !.fm = IF e.tracing THEN <<paths>> ELSE @]

\* SEqualReducer::CompareAttributeValues on a primitive attribute
CompareAttributeValues(e, c, a, b, paths) ==
  IF a = b THEN [c EXCEPT !.ret = TRUE]
  ELSE [c EXCEPT !.ret = FALSE,
                 !.fm = IF e.tracing /\ @ = <<>> THEN <<paths>> ELSE @]

\* SEqualReducer::AnyEqual on two array elements (an object or None)
AnyEqual(e, c, a, b, mfv, paths) ==
  IF (IF a = 0 THEN "None" ELSE Heap[a].type) # (IF b = 0 THEN "None" ELSE Heap[b].type)
    THEN [c EXCEPT !.ret = FALSE,
                   !.fm = IF e.tracing /\ @ = <<>> THEN <<paths>> ELSE @]
  ELSE IF a # 0 THEN ObjectAttrsEqual(e, c, a, b, mfv, paths)
  ELSE [c EXCEPT !.ret = TRUE]

----------------------------------------------------------------------------
(***************************************************************************)
(* The per-type reducers, as the comparisons each makes in order: a reducer *)
(* is the && of its steps and stops at the first that returns false.        *)
(*   Var : the dtype, then FreeVarEqualImpl (a graph node)                  *)
(*   Op  : the value, then each operand                                     *)
(*   Box : MarkGraphNode, the value, then the operand                       *)
(*   Fn  : the value, the parameters, then the body                         *)
(*   Let : the value, DefEqual on the bound variable, then the body         *)
(*   For : DefEqual on the loop variable, the extent, the kind (the value), *)
(*         then the body                                                    *)
(*   Arr : the array reducer, traced or not                                 *)
(***************************************************************************)
St(op, a, b, lseg, rseg, def) ==
  [op |-> op, a |-> a, b |-> b, lseg |-> lseg, rseg |-> rseg, def |-> def]

NoSeg == Seg("", 0)

Min(a, b) == IF a <= b THEN a ELSE b

PrimStep(l, r) == St("prim", Heap[l].val, Heap[r].val, Seg("Attr", 0), Seg("Attr", 0), FALSE)

KidSteps(l, r, def) ==
  [k \in 1..Min(Len(Heap[l].kids), Len(Heap[r].kids)) |->
     St("obj", Heap[l].kids[k], Heap[r].kids[k], Seg("Attr", k), Seg("Attr", k),
        def /\ k = 1)]

ElemSteps(l, r) ==
  [k \in 1..Min(Len(Heap[l].kids), Len(Heap[r].kids)) |->
     St("any", Heap[l].kids[k], Heap[r].kids[k], Seg("Index", k - 1), Seg("Index", k - 1),
        FALSE)]

\* the missing element after the shorter array's last
SizeStep(l, r) ==
  IF Len(Heap[l].kids) > Len(Heap[r].kids)
    THEN St("size", Len(Heap[l].kids), Len(Heap[r].kids),
            Seg("Index", Len(Heap[r].kids)), Seg("Missing", Len(Heap[r].kids)), FALSE)
    ELSE St("size", Len(Heap[l].kids), Len(Heap[r].kids),
            Seg("Missing", Len(Heap[l].kids)), Seg("Index", Len(Heap[l].kids)), FALSE)

ReducerSteps(e, l, r) ==
  IF Heap[l].type = "Var"
    THEN <<PrimStep(l, r), St("free", l, r, NoSeg, NoSeg, FALSE)>>
  ELSE IF Heap[l].type = "Op" THEN <<PrimStep(l, r)>> \o KidSteps(l, r, FALSE)
  ELSE IF Heap[l].type = "Box"
    THEN <<St("mark", l, r, NoSeg, NoSeg, FALSE), PrimStep(l, r)>> \o KidSteps(l, r, FALSE)
  ELSE IF Heap[l].type = "Fn" THEN <<PrimStep(l, r)>> \o KidSteps(l, r, FALSE)
  ELSE IF Heap[l].type = "Let" THEN <<PrimStep(l, r)>> \o KidSteps(l, r, TRUE)
  ELSE IF Heap[l].type = "For"
    THEN SubSeq(KidSteps(l, r, TRUE), 1, 2) \o <<PrimStep(l, r)>>
           \o SubSeq(KidSteps(l, r, TRUE), 3, 3)
  ELSE IF e.tracing THEN ElemSteps(l, r) \o <<SizeStep(l, r)>>
  ELSE <<St("sizeu", Len(Heap[l].kids), Len(Heap[r].kids), NoSeg, NoSeg, FALSE)>>
         \o ElemSteps(l, r)

\* the paths of an attribute taken from the root instead of the task's paths
AttrPathsFromRoot(t, lseg, rseg) == PathPair(<<lseg>>, <<rseg>>)

\* the paths of an attribute of the task being expanded
AttrPaths(t, lseg, rseg) ==
  IF t.current_paths = <<>> THEN PathPair(<<lseg>>, <<rseg>>)
  ELSE PathPair(Append(t.current_paths[1].lhs_path, lseg),
                Append(t.current_paths[1].rhs_path, rseg))

\* Impl::MarkGraphNode, called by the reducer of the task on top of the stack
MarkGraphNode(c) == [c EXCEPT !.ge = TRUE, !.ret = TRUE]

\* SEqualReducer::FreeVarEqualImpl
FreeVarEqualImpl(c, l, r, mfv) == [c EXCEPT !.ge = TRUE, !.ret = (l = r) \/ mfv]

\* the array reducer's size check once the common elements are enqueued
ArraySizeTraced(e, c, st, paths) ==
  IF st.a = st.b THEN [c EXCEPT !.ret = TRUE]
  ELSE IF e.defer_fails THEN [DeferFail(c, paths) EXCEPT !.ret = TRUE]
  ELSE [c EXCEPT !.ret = FALSE]

\* ExecStep with DefEqual passing on the reducer's own map_free_vars
ExecStepPlainDef(e, c, t, st) ==
  IF st.op = "prim"
    THEN CompareAttributeValues(e, c, st.a, st.b, AttrPaths(t, st.lseg, st.rseg))
  ELSE IF st.op = "obj"
    THEN ObjectAttrsEqual(e, c, st.a, st.b, t.map_free_vars,
                          AttrPaths(t, st.lseg, st.rseg))
  ELSE IF st.op = "any"
    THEN AnyEqual(e, c, st.a, st.b, t.map_free_vars, AttrPaths(t, st.lseg, st.rseg))
  ELSE IF st.op = "mark" THEN MarkGraphNode(c)
  ELSE IF st.op = "free" THEN FreeVarEqualImpl(c, st.a, st.b, t.map_free_vars)
  ELSE IF st.op = "size"
    THEN ArraySizeTraced(e, c, st, AttrPaths(t, st.lseg, st.rseg))
  ELSE [c EXCEPT !.ret = (st.a = st.b)]

\* one comparison of the reducer expanding task t
ExecStep(e, c, t, st) ==
  IF st.op = "prim"
    THEN CompareAttributeValues(e, c, st.a, st.b, AttrPaths(t, st.lseg, st.rseg))
  ELSE IF st.op = "obj"
    THEN ObjectAttrsEqual(e, c, st.a, st.b, t.map_free_vars \/ st.def,
                          AttrPaths(t, st.lseg, st.rseg))
  ELSE IF st.op = "any"
    THEN AnyEqual(e, c, st.a, st.b, t.map_free_vars, AttrPaths(t, st.lseg, st.rseg))
  ELSE IF st.op = "mark" THEN MarkGraphNode(c)
  ELSE IF st.op = "free" THEN FreeVarEqualImpl(c, st.a, st.b, t.map_free_vars)
  ELSE IF st.op = "size"
    THEN ArraySizeTraced(e, c, st, AttrPaths(t, st.lseg, st.rseg))
  ELSE [c EXCEPT !.ret = (st.a = st.b)]

RECURSIVE RunSteps(_, _, _, _)
RunSteps(e, c, t, steps) ==
  IF steps = <<>> \/ ~c.ret \/ c.fatal # "" THEN c
  ELSE RunSteps(e, ExecStep(e, c, t, Head(steps)), t, Tail(steps))

\* ReflectionVTable::SEqualReduce: the reducer registered for the type
VTableSEqualReduce(e, c, t) == RunSteps(e, c, t, ReducerSteps(e, t.lhs, t.rhs))

\* whether DispatchSEqualReduce reaches the reducer: entries that already
\* have equality maps are settled from the maps
InvokesReducer(e, t) == e.equal_map_lhs[t.lhs] = 0 /\ e.equal_map_rhs[t.rhs] = 0

\* DispatchSEqualReduce handing every task to the reducer, mapped or not
DispatchSEqualReduceNoMaps(e, fm, t) ==
  Bind(VTableSEqualReduce(e, Ctx(e.pending_tasks, fm), t), LAMBDA c :
    IF c.fatal # "" THEN c ELSE CheckResult(e, c, c.ret, t.current_paths))

\* Impl::DispatchSEqualReduce
DispatchSEqualReduce(e, fm, t) ==
  IF e.equal_map_lhs[t.lhs] # 0
    THEN CheckResult(e, Ctx(e.pending_tasks, fm), e.equal_map_lhs[t.lhs] = t.rhs,
                     t.current_paths)
  ELSE IF e.equal_map_rhs[t.rhs] # 0
    THEN CheckResult(e, Ctx(e.pending_tasks, fm), FALSE, t.current_paths)
  ELSE Bind(VTableSEqualReduce(e, Ctx(e.pending_tasks, fm), t), LAMBDA c :
         IF c.fatal # "" THEN c ELSE CheckResult(e, c, c.ret, t.current_paths))

----------------------------------------------------------------------------
(***************************************************************************)
(* The engine: one SEqualHandlerDefault::Impl and the slot its              *)
(* first_mismatch_ points to.  pc is where the caller of Equal stands:      *)
(* "idle" (constructed), "run" (inside RunTasks), "done" (Equal returned    *)
(* result), "fatal" (LOG(FATAL), an ICHECK or the fault of a null read),    *)
(* "overflow" (the task stack has outgrown MaxStack).  calls is the history *)
(* of reducer invocations of the current Equal call.                        *)
(***************************************************************************)
NoMap == [n \in Nodes |-> 0]

Impl(assert_mode, tracing, defer_fails, ub) ==
  [pc |-> "idle", assert_mode |-> assert_mode, tracing |-> tracing,
   defer_fails |-> defer_fails, ub |-> ub, ncalls |-> 0,
   root_lhs |-> AnyNone, root_rhs |-> AnyNone, map_free_vars |-> FALSE,
   task_stack |-> <<>>, pending_tasks |-> <<>>,
   equal_map_lhs |-> NoMap, equal_map_rhs |-> NoMap,
   allow_push_to_stack |-> TRUE, result |-> FALSE, error |-> "", calls |-> <<>>]

\* the engine and the mismatch slot after a step
EngState(e, fm) == [eng |-> e, fm |-> fm]

\* Equal returns what CheckResult returned, or CheckResult has raised
Returned(e, c) ==
  EngState([e EXCEPT !.pc = IF c.fatal # "" THEN "fatal" ELSE "done",
                     !.result = c.ret /\ c.fatal = "",
                     !.error = c.fatal,
                     !.pending_tasks = c.pending], c.fm)

\* a failed ICHECK
ICheckFailed(e, fm) ==
  EngState([e EXCEPT !.pc = "fatal", !.result = FALSE, !.error = "InternalError"], fm)

\* Equal comparing the values of two roots without comparing their type tags
EqualAnyTag(e0, fm, lhs, rhs, mfv) ==
  Bind([e0 EXCEPT !.task_stack = <<>>, !.pending_tasks = <<>>,
                  !.equal_map_lhs = NoMap, !.equal_map_rhs = NoMap,
                  !.root_lhs = lhs, !.root_rhs = rhs, !.map_free_vars = mfv,
                  !.ncalls = @ + 1, !.result = FALSE, !.error = "", !.calls = <<>>],
       LAMBDA e :
    Bind(IF e.tracing THEN <<PathPair(RootPath, RootPath)>> ELSE <<>>, LAMBDA paths :
      IF ~lhs.obj \/ ~rhs.obj THEN
        (IF lhs.v = rhs.v THEN Returned(e, Ctx(<<>>, fm))
         ELSE Returned(e, CheckResult(e, Ctx(<<>>, fm), FALSE, paths)))
      ELSE Bind(SEqualReduce(e, Ctx(<<>>, fm), lhs.v, rhs.v, mfv, paths), LAMBDA c :
        IF c.fatal # "" \/ ~c.ret THEN Returned(e, c)
        ELSE IF Len(c.pending) # 1 THEN ICheckFailed([e EXCEPT !.pending_tasks = c.pending], c.fm)
        ELSE IF ~e.allow_push_to_stack
          THEN ICheckFailed([e EXCEPT !.pending_tasks = c.pending], c.fm)
        ELSE EngState([e EXCEPT !.pc = "run", !.task_stack = <<c.pending[1]>>], c.fm))))

\* Impl::Equal up to its call of RunTasks
Equal(e0, fm, lhs, rhs, mfv) ==
  Bind([e0 EXCEPT !.task_stack = <<>>, !.pending_tasks = <<>>,
                  !.equal_map_lhs = NoMap, !.equal_map_rhs = NoMap,
                  !.root_lhs = lhs, !.root_rhs = rhs, !.map_free_vars = mfv,
                  !.ncalls = @ + 1, !.result = FALSE, !.error = "", !.calls = <<>>],
       LAMBDA e :
    Bind(IF e.tracing THEN <<PathPair(RootPath, RootPath)>> ELSE <<>>, LAMBDA paths :
      IF lhs.tag # rhs.tag THEN Returned(e, CheckResult(e, Ctx(<<>>, fm), FALSE, paths))
      ELSE IF ~lhs.obj THEN
        (IF lhs.v = rhs.v THEN Returned(e, Ctx(<<>>, fm))
         ELSE Returned(e, CheckResult(e, Ctx(<<>>, fm), FALSE, paths)))
      ELSE Bind(SEqualReduce(e, Ctx(<<>>, fm), lhs.v, rhs.v, mfv, paths), LAMBDA c :
        IF c.fatal # "" \/ ~c.ret THEN Returned(e, c)
        ELSE IF Len(c.pending) # 1 THEN ICheckFailed([e EXCEPT !.pending_tasks = c.pending], c.fm)
        ELSE IF ~e.allow_push_to_stack
          THEN ICheckFailed([e EXCEPT !.pending_tasks = c.pending], c.fm)
        ELSE EngState([e EXCEPT !.pc = "run", !.task_stack = <<c.pending[1]>>], c.fm))))

Top(e) == e.task_stack[Len(e.task_stack)]

Reverse(s) == [i \in 1..Len(s) |-> s[Len(s) + 1 - i]]

\* RunTasks, the entry on top is a force-fail task
RunForceFail(e, fm) ==
  Returned(e, CheckResult(e, Ctx(e.pending_tasks, fm), FALSE, Top(e).current_paths))

\* RunComplete recording a graph node in equal_map_lhs only
RunCompleteLhsOnly(e, fm) ==
  Bind(Top(e), LAMBDA t :
    IF e.equal_map_lhs[t.lhs] # 0 /\ e.equal_map_lhs[t.lhs] # t.rhs THEN ICheckFailed(e, fm)
    ELSE Bind([e EXCEPT !.equal_map_lhs = IF t.graph_equal THEN [@ EXCEPT ![t.lhs] = t.rhs] ELSE @,
                        !.task_stack = SubSeq(@, 1, Len(@) - 1)],
              LAMBDA d :
           IF d.task_stack = <<>>
             THEN EngState([d EXCEPT !.pc = "done", !.result = TRUE], fm)
             ELSE EngState(d, fm)))

\* RunComplete without the remap entries of a graph node
RunCompleteNoRemap(e, fm) ==
  Bind(Top(e), LAMBDA t :
    Bind([e EXCEPT !.task_stack = SubSeq(@, 1, Len(@) - 1)], LAMBDA d :
      IF d.task_stack = <<>>
        THEN EngState([d EXCEPT !.pc = "done", !.result = TRUE], fm)
        ELSE EngState(d, fm)))

\* RunComplete recording every completed entry, a graph node or not
RunCompleteAnyTask(e, fm) ==
  Bind(Top(e), LAMBDA t :
    IF e.equal_map_lhs[t.lhs] # 0 /\ e.equal_map_lhs[t.lhs] # t.rhs THEN ICheckFailed(e, fm)
    ELSE Bind([e EXCEPT !.equal_map_lhs = [@ EXCEPT ![t.lhs] = t.rhs],
                        !.equal_map_rhs = [@ EXCEPT ![t.rhs] = t.lhs],
                        !.task_stack = SubSeq(@, 1, Len(@) - 1)],
              LAMBDA d :
           IF d.task_stack = <<>>
             THEN EngState([d EXCEPT !.pc = "done", !.result = TRUE], fm)
             ELSE EngState(d, fm)))

\* RunTasks, the entry on top has its children expanded: it is complete
RunComplete(e, fm) ==
  Bind(Top(e), LAMBDA t :
    IF e.equal_map_lhs[t.lhs] # 0 /\ e.equal_map_lhs[t.lhs] # t.rhs THEN ICheckFailed(e, fm)
    ELSE Bind([e EXCEPT !.equal_map_lhs = IF t.graph_equal THEN [@ EXCEPT ![t.lhs] = t.rhs] ELSE @,
                        !.equal_map_rhs = IF t.graph_equal THEN [@ EXCEPT ![t.rhs] = t.lhs] ELSE @,
                        !.task_stack = SubSeq(@, 1, Len(@) - 1)],
              LAMBDA d :
           IF d.task_stack = <<>>
             THEN EngState([d EXCEPT !.pc = "done", !.result = TRUE], fm)
             ELSE EngState(d, fm)))

\* the stack after the reducer of the entry on top has run: the entry is
\* marked expanded, and a graph node if the reducer said so
Expanded(e, c) ==
  [e.task_stack EXCEPT ![Len(e.task_stack)] =
     [@ EXCEPT !.children_expanded = TRUE, !.graph_equal = c.ge]]

\* PushPending without the reversal
PushPendingInOrder(stack, pending) == stack \o pending

\* the pending tasks go onto the stack last first, so that the first expands first
PushPending(stack, pending) == stack \o Reverse(pending)

\* RunTasks, the entry on top is to be expanded
RunExpand(e, fm) ==
  IF e.pending_tasks # <<>>
    THEN ICheckFailed([e EXCEPT !.task_stack = Expanded(e, [ge |-> FALSE])], fm)
  ELSE Bind([e EXCEPT !.allow_push_to_stack = FALSE,
                      !.calls = IF InvokesReducer(e, Top(e))
                                  THEN Append(@, <<Top(e).lhs, Top(e).rhs>>) ELSE @],
            LAMBDA d :
    Bind(DispatchSEqualReduce(d, fm, Top(d)), LAMBDA c :
      IF c.fatal # "" \/ ~c.ret
        THEN Returned([d EXCEPT !.task_stack = Expanded(d, c)], c)
      ELSE IF Len(d.task_stack) + Len(c.pending) > MaxStack
        THEN EngState([d EXCEPT !.pc = "overflow", !.allow_push_to_stack = TRUE,
                                !.task_stack = Expanded(d, c),
                                !.pending_tasks = c.pending], c.fm)
      ELSE EngState([d EXCEPT !.allow_push_to_stack = TRUE,
                              !.task_stack = PushPending(Expanded(d, c), c.pending),
                              !.pending_tasks = <<>>], c.fm)))

\* one iteration of the loop of RunTasks
RunTasks(e, fm) ==
  IF Top(e).force_fail THEN RunForceFail(e, fm)
  ELSE IF Top(e).children_expanded THEN RunComplete(e, fm)
  ELSE RunExpand(e, fm)

\* RunTasks: the loop, until Equal returns, raises or outgrows the stack
RECURSIVE RunTasksLoop(_)
RunTasksLoop(s) == IF s.eng.pc # "run" THEN s ELSE RunTasksLoop(RunTasks(s.eng, s.fm))

\* one whole call of Equal on handler h, with the slot holding fm
EqualCall(h, fm, lhs, rhs, mfv) == RunTasksLoop(Equal(h, fm, lhs, rhs, mfv))

----------------------------------------------------------------------------
(***************************************************************************)
(* The equality specification: a handler is constructed, Equal is called   *)
(* on it, RunTasks iterates, and the handler may be called again.           *)
(***************************************************************************)
MaxCalls == 2

\* SEqualHandlerDefault(assert_mode, first_mismatch, defer_fails); tracing is
\* first_mismatch != nullptr.  The callers in this file construct
\* (false, nullptr, false), (false, &slot, true) and (a, &slot, a)
Handlers ==
  {Impl(a, TRUE, d, "none") : a \in BOOLEAN, d \in BOOLEAN}
    \cup {Impl(FALSE, FALSE, d, "none") : d \in BOOLEAN}
    \cup {Impl(TRUE, FALSE, FALSE, u) : u \in {"SIGSEGV", "ValueError"}}

\* the roots a handler is called on a second time
ReuseRoots == {AnyObj(6), AnyObj(10), AnyInt(3), AnyInt(4)}

EqInit ==
  /\ exec = EmptyExec /\ blob = <<>> /\ loaded = NoLoad /\ xpc = "none"
  /\ patch = NoPatch
  /\ out = NoOut
  /\ ndeq = NoCompare
  /\ eng \in Handlers
  /\ first_mismatch = <<>>
  /\ call = NoCall

Becomes(s) == eng' = s.eng /\ first_mismatch' = s.fm /\ UNCHANGED <<exec, blob, loaded, xpc, patch, out, ndeq, call>>

DoEqual ==
  /\ eng.pc = "idle"
  /\ \E lhs \in Roots, rhs \in Roots, mfv \in BOOLEAN :
       Becomes(Equal(eng, first_mismatch, lhs, rhs, mfv))

DoEqualAgain ==
  /\ eng.pc = "done" /\ eng.ncalls < MaxCalls
  /\ \E lhs \in ReuseRoots, rhs \in ReuseRoots, mfv \in BOOLEAN :
       Becomes(Equal(eng, first_mismatch, lhs, rhs, mfv))

DoForceFail ==
  /\ eng.pc = "run" /\ Top(eng).force_fail
  /\ Becomes(RunTasks(eng, first_mismatch))

DoComplete ==
  /\ eng.pc = "run" /\ ~Top(eng).force_fail /\ Top(eng).children_expanded
  /\ Becomes(RunTasks(eng, first_mismatch))

DoExpand ==
  /\ eng.pc = "run" /\ ~Top(eng).force_fail /\ ~Top(eng).children_expanded
  /\ Becomes(RunTasks(eng, first_mismatch))

\* Impl::MarkGraphNode called through SEqualHandlerDefault::MarkGraphNode while
\* no Equal call is running: the ICHECK raises ("markfatal"), or it passes
\* and the entry on top of the stack is marked ("marked")
MarkGraphNodeOutside(e, fm) ==
  IF ~(~e.allow_push_to_stack /\ e.task_stack # <<>>)
    THEN EngState([e EXCEPT !.pc = "markfatal", !.error = "InternalError"], fm)
    ELSE EngState([e EXCEPT !.pc = "marked",
                            !.task_stack[Len(e.task_stack)].graph_equal = TRUE], fm)

\* the owner of the handler calls MarkGraphNode before or after an Equal call
DoMarkGraphNode ==
  /\ eng.pc \in {"idle", "done"}
  /\ Becomes(MarkGraphNodeOutside(eng, first_mismatch))

\* SEqualReducer::GetCurrentObjectPaths of the reducer made for task t
GetCurrentObjectPaths(e, t) ==
  IF ~e.tracing THEN [status |-> "fatal", ret |-> <<>>]
  ELSE [status |-> "ok", ret |-> t.current_paths]

\* RecordMismatchPaths storing its argument whatever the slot holds
RecordMismatchPathsOverwrite(e, fm, paths) ==
  IF ~e.tracing THEN [status |-> "fatal", fm |-> fm]
  ELSE [status |-> "ok", fm |-> <<paths>>]

\* SEqualReducer::RecordMismatchPaths(paths)
RecordMismatchPaths(e, fm, paths) ==
  IF ~e.tracing THEN [status |-> "fatal", fm |-> fm]
  ELSE [status |-> "ok", fm |-> IF fm = <<>> THEN <<paths>> ELSE fm]

\* RunTasks up to the point where the reducer of the top entry is entered
InReducer(e) ==
  [e EXCEPT !.task_stack[Len(e.task_stack)].children_expanded = TRUE,
            !.allow_push_to_stack = FALSE]

\* the reducer of the top entry is about to be invoked
ReducerEntered ==
  /\ eng.pc = "run" /\ ~Top(eng).force_fail /\ ~Top(eng).children_expanded
  /\ InvokesReducer(eng, Top(eng))

\* the engine after a call the reducer made on its SEqualReducer: inside the
\* reducer ("called"), or unwinding from the ICHECK ("callfatal")
AfterCall(e, status) ==
  [InReducer(e) EXCEPT !.pc = IF status = "fatal" THEN "callfatal" ELSE "called",
                       !.error = IF status = "fatal" THEN "InternalError" ELSE @]

\* the path pairs a reducer hands to RecordMismatchPaths
MismatchArgs ==
  {PathPair(RootPath, RootPath), PathPair(<<Seg("Attr", 1)>>, <<Seg("Attr", 1)>>)}

\* the reducer of the top entry begins by asking for its paths
DoGetCurrentObjectPaths ==
  /\ ReducerEntered
  /\ Bind(GetCurrentObjectPaths(eng, Top(eng)), LAMBDA r :
       /\ call' = [op |-> "GetCurrentObjectPaths", status |-> r.status,
                   arg |-> <<>>, ret |-> r.ret]
       /\ eng' = AfterCall(eng, r.status))
  /\ UNCHANGED <<exec, blob, loaded, xpc, patch, out, ndeq, first_mismatch>>

\* the reducer of the top entry begins by recording a mismatch
DoRecordMismatchPaths ==
  /\ ReducerEntered
  /\ \E paths \in MismatchArgs :
       Bind(RecordMismatchPaths(eng, first_mismatch, paths), LAMBDA r :
         /\ call' = [op |-> "RecordMismatchPaths", status |-> r.status,
                     arg |-> <<paths>>, ret |-> <<>>]
         /\ eng' = AfterCall(eng, r.status)
         /\ first_mismatch' = r.fm)
  /\ UNCHANGED <<exec, blob, loaded, xpc, patch, out, ndeq>>

\* the fields of node n, an undefined one being 0
FieldsOf(n) == {Heap[n].kids[k] : k \in 1..Len(Heap[n].kids)}

\* the current_paths a reducer's first comparison is called with: those of
\* its first attribute, or none
FirstCallPaths(e, t) ==
  IF e.tracing THEN {<<>>, <<AttrPaths(t, Seg("Attr", 1), Seg("Attr", 1))>>} ELSE {<<>>}

\* the reducer of the top entry begins by comparing a field of its left node
\* with a field of its right node through SEqualHandlerDefault::SEqualReduce,
\* with either value of map_free_vars (DefEqual passes true);
\* pending_tasks_ is empty when it does
DoSEqualReduce ==
  /\ ReducerEntered
  /\ \E l \in FieldsOf(Top(eng).lhs), r \in FieldsOf(Top(eng).rhs) :
       \E paths \in FirstCallPaths(eng, Top(eng)), mfv \in BOOLEAN :
         Bind(SEqualReduce(eng, Ctx(<<>>, first_mismatch), l, r, mfv, paths), LAMBDA c :
           /\ call' = [op |-> "SEqualReduce",
                       status |-> IF c.fatal # "" THEN "fatal" ELSE "ok",
                       arg |-> <<l, r, paths, mfv>>, ret |-> <<c.ret>>]
           /\ eng' = [AfterCall(eng, IF c.fatal # "" THEN "fatal" ELSE "ok")
                        EXCEPT !.pending_tasks = c.pending,
                               !.error = c.fatal]
           /\ first_mismatch' = c.fm)
  /\ UNCHANGED <<exec, blob, loaded, xpc, patch, out, ndeq>>

EqNext ==
  \/ DoEqual \/ DoEqualAgain \/ DoForceFail \/ DoComplete \/ DoExpand
  \/ DoMarkGraphNode \/ DoGetCurrentObjectPaths \/ DoRecordMismatchPaths
  \/ DoSEqualReduce

EqSpec == EqInit /\ [][EqNext]_vars

\* one call of Equal and the loop of RunTasks alone.  The loop runs on once
\* entered: weak fairness of each of its steps.  An expansion is enabled
\* exactly in the states of ExpandDue and always leaves its state, so its weak
\* fairness is stated on the states: the loop does not stay in them forever
EqRunNext == DoEqual \/ DoForceFail \/ DoComplete \/ DoExpand

\* the handlers that defer failures: tracing with fail deferral
EqRunInit == EqInit /\ eng.tracing /\ eng.defer_fails

\* the loop is about to expand the entry on top of the stack
ExpandDue == eng.pc = "run" /\ ~Top(eng).force_fail /\ ~Top(eng).children_expanded

EqRunSpec ==
  /\ EqRunInit /\ [][EqRunNext]_vars
  /\ WF_vars(DoForceFail) /\ WF_vars(DoComplete) /\ []<>~ExpandDue

----------------------------------------------------------------------------
(***************************************************************************)
(* NDArrayEqual.  A tensor is an NDArray::Container: its address, device,   *)
(* whether IsContiguous holds of it, its shape, its dtype and the bytes     *)
(* its data pointer leads to.                                               *)
(***************************************************************************)
Tensor(addr, device, contiguous, shape, dtype, data) ==
  [addr |-> addr, device |-> device, contiguous |-> contiguous, shape |-> shape,
   dtype |-> dtype, data |-> data]

kDLCPU == 1
kDLCUDA == 2

DType(code, bits, lanes) == [code |-> code, bits |-> bits, lanes |-> lanes]

\* shape, dtype and data of the tensors compared
TensorContents ==
  { <<<<2>>, DType(0, 8, 1), <<5, 6>>>>,
    <<<<2>>, DType(0, 8, 1), <<5, 7>>>>,
    <<<<2>>, DType(1, 8, 1), <<5, 6>>>>,
    <<<<1, 2>>, DType(0, 8, 1), <<5, 6>>>>,
    <<<<3>>, DType(0, 8, 1), <<5, 6, 0>>>>,
    <<<<>>, DType(0, 8, 1), <<5>>>>,
    <<<<2>>, DType(0, 8, 2), <<5, 6, 0, 0>>>>,
    <<<<2>>, DType(0, 16, 1), <<5, 6, 0, 0>>>>,
    <<<<1>>, DType(0, 16, 1), <<5, 6>>>> }

\* the tensors at one address
TensorsAt(addr) ==
  { Tensor(addr, device, contiguous, c[1], c[2], c[3]) :
      device \in {kDLCPU, kDLCUDA}, contiguous \in BOOLEAN, c \in TensorContents }

RECURSIVE Product(_)
Product(shape) == IF shape = <<>> THEN 1 ELSE Head(shape) * Product(Tail(shape))

\* runtime::GetDataSize: the bytes of the packed elements
GetDataSize(t) == (Product(t.shape) * t.dtype.bits * t.dtype.lanes + 7) \div 8

\* std::memcmp(lhs->data, rhs->data, data_size) == 0
MemEqual(a, b, size) ==
  \A k \in 1..size : k \in DOMAIN a /\ k \in DOMAIN b /\ a[k] = b[k]

\* the first dimension at which the shapes differ, 0 when there is none
FirstDimApart(lhs, rhs) ==
  IF \A i \in DOMAIN lhs.shape : lhs.shape[i] = rhs.shape[i] THEN 0
  ELSE CHOOSE i \in DOMAIN lhs.shape :
         /\ lhs.shape[i] # rhs.shape[i]
         /\ \A j \in 1..(i - 1) : lhs.shape[j] = rhs.shape[j]

\* the paths CompareAttributeValues records for a value that is no attribute
\* of the object being reduced: GetAttrKeyByAddress finds no key for it
UnknownAttrPaths == PathPair(<<Seg("Attr", -1)>>, <<Seg("Attr", -1)>>)

Compared(status, result, fm) == [status |-> status, result |-> result, fm |-> fm]

\* NDArrayEqual comparing the dtypes without their lanes
NDArrayEqualNoLanes(lhs, rhs, tracing, fm, compare_data) ==
  IF lhs.addr = rhs.addr THEN Compared("ok", TRUE, fm)
  ELSE IF lhs.device # kDLCPU \/ rhs.device # kDLCPU THEN Compared("fatal", FALSE, fm)
  ELSE IF ~lhs.contiguous \/ ~rhs.contiguous THEN Compared("fatal", FALSE, fm)
  ELSE IF Len(lhs.shape) # Len(rhs.shape) THEN Compared("ok", FALSE, fm)
  ELSE IF FirstDimApart(lhs, rhs) # 0
    THEN Compared("ok", FALSE,
                  IF tracing /\ fm = <<>> THEN <<UnknownAttrPaths>> ELSE fm)
  ELSE IF lhs.dtype.code = rhs.dtype.code /\ lhs.dtype.bits = rhs.dtype.bits
    THEN IF compare_data
           THEN Compared("ok", MemEqual(lhs.data, rhs.data, GetDataSize(lhs)), fm)
           ELSE Compared("ok", TRUE, fm)
  ELSE Compared("ok", FALSE, fm)

\* NDArrayEqual(lhs, rhs, equal, compare_data); tracing and fm are the
\* tracing data of the reducer equal and the slot it records into
NDArrayEqual(lhs, rhs, tracing, fm, compare_data) ==
  IF lhs.addr = rhs.addr THEN Compared("ok", TRUE, fm)
  ELSE IF lhs.device # kDLCPU \/ rhs.device # kDLCPU THEN Compared("fatal", FALSE, fm)
  ELSE IF ~lhs.contiguous \/ ~rhs.contiguous THEN Compared("fatal", FALSE, fm)
  ELSE IF Len(lhs.shape) # Len(rhs.shape) THEN Compared("ok", FALSE, fm)
  ELSE IF FirstDimApart(lhs, rhs) # 0
    THEN Compared("ok", FALSE,
                  IF tracing /\ fm = <<>> THEN <<UnknownAttrPaths>> ELSE fm)
  ELSE IF /\ lhs.dtype.code = rhs.dtype.code /\ lhs.dtype.lanes = rhs.dtype.lanes
          /\ lhs.dtype.bits = rhs.dtype.bits
    THEN IF compare_data
           THEN Compared("ok", MemEqual(lhs.data, rhs.data, GetDataSize(lhs)), fm)
           ELSE Compared("ok", TRUE, fm)
  ELSE Compared("ok", FALSE, fm)

TensorInit ==
  /\ exec = EmptyExec /\ blob = <<>> /\ loaded = NoLoad /\ xpc = "none"
  /\ patch = NoPatch
  /\ out = NoOut
  /\ ndeq = NoCompare
  /\ eng = EngOff
  /\ first_mismatch = <<>>
  /\ call = NoCall

\* a reducer calls NDArrayEqual on two tensors, or on one tensor twice
DoNDArrayEqual ==
  /\ ndeq.status = "none" /\ xpc = "none" /\ eng = EngOff
  /\ \E lhs \in TensorsAt(1), compare_data \in BOOLEAN, tracing \in BOOLEAN :
       \E rhs \in {lhs} \cup TensorsAt(2) :
         Bind(NDArrayEqual(lhs, rhs, tracing, first_mismatch, compare_data), LAMBDA r :
           /\ ndeq' = [status |-> r.status, result |-> r.result, lhs |-> lhs, rhs |-> rhs,
                     compare_data |-> compare_data, tracing |-> tracing]
           /\ first_mismatch' = r.fm)
  /\ UNCHANGED <<exec, blob, loaded, xpc, patch, out, eng, call>>

TensorNext == DoNDArrayEqual

TensorSpec == TensorInit /\ [][TensorNext]_vars

Init == ExecInit \/ EqInit \/ TensorInit

Next == ExecNext \/ EqNext \/ TensorNext

Spec == Init /\ [][Next]_vars

----------------------------------------------------------------------------
(***************************************************************************)
(* Properties of the executable codec, under ExecSpec.                      *)
(***************************************************************************)
\* VMExecutable::HasFunction
HasFunction(e, name) == name \in DOMAIN e.func_map

\* the func_map rebuilt from a func_table: every name of the table, and only
\* those, mapped to the 0-based index of its entry (of the last entry of that
\* name, should the table name a function twice)
IsFuncMapOf(m, ft) ==
  /\ DOMAIN m = {ft[i].name : i \in 1..Len(ft)}
  /\ \A i \in 1..Len(ft) :
       (\A j \in (i + 1)..Len(ft) : ft[j].name # ft[i].name) => m[ft[i].name] = i - 1

\* C1: loading the bytes SaveToBinary wrote for a well-formed executable
\* succeeds and yields the same constants (order, kind and value), the same
\* func_table, the func_map rebuilt from that table, and the same
\* instr_offset and instr_data.
C1_SaveLoadRoundTrip ==
  xpc = "loaded" =>
    /\ loaded.status = "ok"
    /\ loaded.exec.constants = exec.constants
    /\ loaded.exec.func_table = exec.func_table
    /\ IsFuncMapOf(loaded.exec.func_map, exec.func_table)
    /\ loaded.exec.instr_offset = exec.instr_offset
    /\ loaded.exec.instr_data = exec.instr_data

\* an executable with a tensor and a negative integer constant, two functions
\* with parameter names and a program has been saved and loaded
C1_Witness ==
  /\ xpc = "loaded" /\ loaded.status = "ok"
  /\ Len(exec.constants) = 2
  /\ exec.constants[1].kind = "NDArray" /\ exec.constants[2] = IntC(-1)
  /\ Len(exec.func_table) = 2 /\ exec.func_table[2].param_names # <<>>
  /\ exec.instr_data # <<>>
  /\ loaded.exec.constants = exec.constants

\* the one byte of the blob that differs from the bytes saved
DamagedByte ==
  Bind(SaveToBinary(exec), LAMBDA saved : CHOOSE i \in 1..Len(blob) : blob[i] # saved[i])

\* C2: a blob damaged in a byte of the magic is rejected with the fatal error
\* of the "header" section, one damaged in the version string (its length or
\* its bytes) with that of the "version" section; in both cases only the
\* header has been read and no executable is returned.
C2_HeaderRejected ==
  xpc = "rejected" =>
    /\ loaded.status = "fatal"
    /\ loaded.section = IF DamagedByte \in MagicBytes THEN "header" ELSE "version"
    /\ loaded.read = <<"header">>
    /\ loaded.exec = EmptyExec

\* a blob with a damaged byte of the version's text has been rejected, the
\* executable saved having functions, constants and code to read
C2_Witness ==
  /\ xpc = "rejected" /\ loaded.status = "fatal" /\ loaded.section = "version"
  /\ DamagedByte > 8 + 8 + 8
  /\ exec.func_table # <<>> /\ exec.constants # <<>> /\ exec.instr_data # <<>>

----------------------------------------------------------------------------
(***************************************************************************)
(* Properties of the equality engine, under EqSpec.                         *)
(***************************************************************************)
\* the handler of the current call as it was constructed
FreshHandler == Impl(eng.assert_mode, eng.tracing, eng.defer_fails, eng.ub)

\* the current call is the first on its handler, the slot undefined before it
FirstCall == eng.pc # "idle" /\ eng.ncalls = 1

\* the call has ended: Equal returned, raised, or outgrew the stack bound
Ended == eng.pc \in {"done", "fatal", "overflow"}

KidsOf(S) == UNION {{Heap[n].kids[k] : k \in 1..Len(Heap[n].kids)} : n \in S} \ {0}

RECURSIVE ReachFrom(_)
ReachFrom(S) == IF KidsOf(S) \subseteq S THEN S ELSE ReachFrom(S \cup KidsOf(S))

\* the nodes of the graph under a root
NodesOf(root) == IF root.obj THEN ReachFrom({root.v}) ELSE {}

\* C3: Equal is symmetric: a call on a fresh engine that returns a boolean for
\* (A, B, b) is matched by the call for (B, A, b) on a fresh engine of the
\* same configuration, which returns the same boolean.
C3_Symmetric ==
  (FirstCall /\ eng.pc = "done") =>
    Bind(EqualCall(FreshHandler, <<>>, eng.root_rhs, eng.root_lhs, eng.map_free_vars),
         LAMBDA s : s.eng.pc = "done" /\ s.eng.result = eng.result)

\* two different graphs of several nodes have been compared with variables
\* remapped, one variable of the right graph being the image of two
C3_Witness ==
  /\ FirstCall /\ eng.pc = "done" /\ ~eng.result
  /\ eng.root_lhs = AnyObj(6) /\ eng.root_rhs = AnyObj(30) /\ eng.map_free_vars
  /\ eng.calls = <<<<6, 30>>, <<1, 2>>>> /\ eng.equal_map_rhs[2] = 1

\* C4: Equal is reflexive: every call Equal(G, G, b) on a fresh engine,
\* cyclic graphs included, ends by returning true.
C4_Reflexive ==
  (FirstCall /\ Ended /\ eng.root_lhs = eng.root_rhs) => (eng.pc = "done" /\ eng.result)

\* C5: Equal terminates and invokes per-type reducers a number of times
\* bounded by a constant multiple (here 2) of the number of nodes of the two
\* graphs.
C5_TerminatesLinear ==
  /\ eng.pc # "overflow"
  /\ eng.pc # "idle" =>
       Len(eng.calls) <= 2 * (Cardinality(NodesOf(eng.root_lhs))
                                + Cardinality(NodesOf(eng.root_rhs)))

\* the call of scenario S3: fn (x, y) { x + y } against fn (y, x) { x + y },
\* traced, without assert mode
S3Call ==
  /\ FirstCall /\ eng.tracing /\ ~eng.assert_mode
  /\ eng.root_lhs = AnyObj(8) /\ eng.root_rhs = AnyObj(9)

SamePath(path) == <<PathPair(path, path)>>

\* C6 as stated: in S3, Equal without remapping returns false with the first
\* mismatch in the parameter list, and Equal with remapping returns true and
\* leaves first_mismatch undefined.
C6_S3AsStated ==
  (S3Call /\ Ended) =>
    /\ eng.pc = "done"
    /\ IF eng.map_free_vars THEN eng.result /\ first_mismatch = <<>>
       ELSE /\ ~eng.result /\ first_mismatch # <<>>
            /\ first_mismatch[1].lhs_path[1] = Seg("Attr", 1)

\* C6 amended: in S3 Equal returns false for both values of map_free_vars;
\* without remapping the first mismatch is the first parameter of the
\* parameter list, with remapping it is the first operand of the body, whose x
\* the parameter lists have remapped to y.
C6_S3BothUnequal ==
  (S3Call /\ Ended) =>
    /\ eng.pc = "done" /\ ~eng.result
    /\ first_mismatch = IF eng.map_free_vars
                          THEN SamePath(<<Seg("Attr", 2), Seg("Attr", 1)>>)
                          ELSE SamePath(<<Seg("Attr", 1), Seg("Index", 0)>>)

\* S3 with remapping has returned false after the parameters were remapped
C6_Witness ==
  /\ S3Call /\ eng.pc = "done" /\ eng.map_free_vars /\ ~eng.result
  /\ eng.equal_map_lhs[1] = 2 /\ eng.equal_map_lhs[2] = 1
  /\ first_mismatch # <<>>

Vars == {n \in Nodes : Heap[n].type = "Var"}

\* the injective renamings of variables that keep a variable's attributes
Renamings ==
  {f \in [Vars -> Vars] :
     /\ \A u \in Vars, v \in Vars : f[u] = f[v] => u = v
     /\ \A v \in Vars : Heap[f[v]].val = Heap[v].val}

\* graph b is graph a with every variable v replaced by f[v], down to depth d
RECURSIVE RenamedBy(_, _, _, _)
RenamedBy(f, a, b, d) ==
  IF a = 0 \/ b = 0 THEN a = b
  ELSE /\ Heap[a].type = Heap[b].type /\ Heap[a].val = Heap[b].val
       /\ Len(Heap[a].kids) = Len(Heap[b].kids)
       /\ IF Heap[a].type = "Var" THEN b = f[a]
          ELSE d = 0 \/ \A k \in 1..Len(Heap[a].kids) :
                          RenamedBy(f, Heap[a].kids[k], Heap[b].kids[k], d - 1)

\* rhs is lhs under a renaming that moves every variable of lhs
IsRenaming(lhs, rhs) ==
  /\ lhs.obj /\ rhs.obj /\ NodesOf(lhs) \cap Vars # {}
  /\ \E f \in Renamings :
       /\ \A v \in NodesOf(lhs) \cap Vars : f[v] # v
       /\ RenamedBy(f, lhs.v, rhs.v, Len(Heap))

\* C7: when B is A under a bijective renaming of its free variables, Equal
\* returns true with map_free_vars and false without.
C7_Renaming ==
  (FirstCall /\ ~eng.assert_mode /\ Ended /\ IsRenaming(eng.root_lhs, eng.root_rhs)) =>
    (eng.pc = "done" /\ eng.result = eng.map_free_vars)

\* Recursive descent, the reference of C8: a comparison is dispatched, the
\* comparisons its reducer enqueued are descended into one after the other in
\* the order of their enqueueing, each with its whole subtree, and then the
\* comparison completes.  It stops at the first failure, and before the
\* reducer invocation that would be number limit + 1.
RefState(e, fm) == [e |-> e, fm |-> fm, calls |-> <<>>, ok |-> TRUE]

RefComplete(s, t, c) ==
  IF s.e.equal_map_lhs[t.lhs] # 0 /\ s.e.equal_map_lhs[t.lhs] # t.rhs
    THEN [s EXCEPT !.ok = FALSE]
  ELSE IF c.ge
    THEN [s EXCEPT !.e.equal_map_lhs[t.lhs] = t.rhs, !.e.equal_map_rhs[t.rhs] = t.lhs]
  ELSE s

RECURSIVE Descend(_, _, _)
RECURSIVE DescendAll(_, _, _)
Descend(s, t, limit) ==
  IF ~s.ok THEN s
  ELSE IF t.force_fail THEN [s EXCEPT !.ok = FALSE]
  ELSE IF InvokesReducer(s.e, t) /\ Len(s.calls) >= limit THEN [s EXCEPT !.ok = FALSE]
  ELSE Bind(DispatchSEqualReduce(s.e, s.fm, t), LAMBDA c :
    Bind([s EXCEPT !.fm = c.fm,
                   !.calls = IF InvokesReducer(s.e, t)
                               THEN Append(@, <<t.lhs, t.rhs>>) ELSE @], LAMBDA s1 :
      IF c.fatal # "" \/ ~c.ret THEN [s1 EXCEPT !.ok = FALSE]
      ELSE Bind(DescendAll(s1, c.pending, limit), LAMBDA s2 :
             IF s2.ok THEN RefComplete(s2, t, c) ELSE s2)))

DescendAll(s, ts, limit) ==
  IF ts = <<>> \/ ~s.ok THEN s
  ELSE DescendAll(Descend(s, Head(ts), limit), Tail(ts), limit)

\* the reducer invocations of the recursive descent for the current call
RecursiveCalls(limit) ==
  Descend(RefState([FreshHandler EXCEPT !.pending_tasks = <<>>], <<>>),
          Task(eng.root_lhs.v, eng.root_rhs.v, eng.map_free_vars,
               IF eng.tracing THEN <<PathPair(RootPath, RootPath)>> ELSE <<>>),
          limit).calls

IsPrefix(a, b) == Len(a) <= Len(b) /\ a = SubSeq(b, 1, Len(a))

\* the current call has entered RunTasks on two objects of one type
Running ==
  /\ eng.pc \in {"run", "done", "fatal", "overflow"}
  /\ eng.root_lhs.obj /\ eng.root_rhs.obj /\ eng.root_lhs.tag = eng.root_rhs.tag
  /\ eng.error # "InternalError"

C9_DeferSameResult ==
  (FirstCall /\ eng.tracing /\ ~eng.assert_mode /\ eng.pc = "done") =>
    Bind(EqualCall(Impl(FALSE, TRUE, ~eng.defer_fails, "none"), <<>>,
                   eng.root_lhs, eng.root_rhs, eng.map_free_vars),
         LAMBDA s : s.eng.pc = "done" /\ s.eng.result = eng.result)

\* C10: in assert mode Equal never returns false, every failure raising the
\* fatal diagnostic (the ValueError of CheckResult); without assert mode a
\* call on a fresh engine raises nothing.
C10_AssertRaises ==
  /\ (eng.assert_mode /\ eng.pc = "done") => eng.result
  /\ (FirstCall /\ eng.assert_mode /\ eng.pc = "fatal") => eng.error = "ValueError"
  /\ (FirstCall /\ ~eng.assert_mode) => eng.pc # "fatal"

\* a first call with tracing and without assert mode has returned
TracedReturn == FirstCall /\ eng.tracing /\ ~eng.assert_mode /\ eng.pc = "done"

\* C11: with tracing, without assert mode and with the slot undefined before
\* the call, Equal returns true exactly when first_mismatch is still undefined
\* at the return: a false result has a recorded path pair, a true result none.
C11_ResultIffNoMismatch ==
  TracedReturn => (eng.result <=> first_mismatch = <<>>)

\* a comparison that fails in the reducer of a variable, which records nothing
\* itself, has returned false with the variable's paths recorded
C11_Witness ==
  /\ TracedReturn /\ ~eng.result /\ ~eng.map_free_vars
  /\ eng.root_lhs = AnyObj(6) /\ eng.root_rhs = AnyObj(7)
  /\ eng.calls = <<<<6, 7>>, <<1, 2>>>>
  /\ first_mismatch = SamePath(<<Seg("Attr", 1)>>)

\* a path pair no comparison of the heap produces, held by the slot
Held == SamePath(<<Seg("Attr", 9)>>)

\* C12: first_mismatch is monotonic: once the slot holds a path pair no step
\* of Equal changes it, and whatever the engine does next on a slot that
\* holds a pair (a primitive or object comparison, a force-fail task,
\* CheckResult) leaves that pair in it.
C12_SlotMonotonic ==
  /\ [][first_mismatch # <<>> => first_mismatch' = first_mismatch]_vars
  /\ [](eng.pc = "run" => RunTasks(eng, Held).fm = Held)

\* a second call on a handler whose slot held the root pair of the first has
\* failed on a primitive attribute, and the slot still holds the root pair
C12_Witness ==
  /\ eng.pc = "done" /\ eng.ncalls = 2 /\ eng.tracing /\ ~eng.result
  /\ eng.root_lhs = AnyObj(6) /\ eng.root_rhs = AnyObj(10)
  /\ eng.calls = <<<<6, 10>>>>
  /\ first_mismatch = SamePath(RootPath)

\* the step gives a node an entry of equal_map_lhs or equal_map_rhs that it
\* did not have
MapEntryInserted ==
  \E n \in Nodes :
    \/ eng'.equal_map_lhs[n] # 0 /\ eng'.equal_map_lhs[n] # eng.equal_map_lhs[n]
    \/ eng'.equal_map_rhs[n] # 0 /\ eng'.equal_map_rhs[n] # eng.equal_map_rhs[n]

\* C13: an entry enters the equality maps only in the step that pops the task
\* on top of the stack with children_expanded and graph_equal set, while the
\* call is still running (nothing has failed) and when nothing enqueued since
\* its expansion is left above it; the entries added are those of that task's
\* pair.  A task not marked graph_equal, a force-fail task and a step that
\* fails add none.
C13_MapOnlyOnCompletion ==
  [][MapEntryInserted =>
       /\ eng.pc = "run" /\ eng'.pc \in {"run", "done"}
       /\ ~Top(eng).force_fail /\ Top(eng).children_expanded /\ Top(eng).graph_equal
       /\ eng'.task_stack = SubSeq(eng.task_stack, 1, Len(eng.task_stack) - 1)
       /\ eng'.equal_map_lhs = [eng.equal_map_lhs EXCEPT ![Top(eng).lhs] = Top(eng).rhs]
       /\ eng'.equal_map_rhs = [eng.equal_map_rhs EXCEPT ![Top(eng).rhs] = Top(eng).lhs]]_vars

\* a comparison has returned true with its graph nodes (two boxes and two
\* variables) in the maps, and its plain nodes not
C13_Witness ==
  /\ eng.pc = "done" /\ eng.result
  /\ eng.root_lhs = AnyObj(16) /\ eng.root_rhs = AnyObj(16)
  /\ eng.equal_map_lhs[13] = 13 /\ eng.equal_map_lhs[14] = 14
  /\ eng.equal_map_rhs[1] = 1 /\ eng.equal_map_rhs[2] = 2
  /\ eng.equal_map_lhs[6] = 0 /\ eng.equal_map_lhs[16] = 0

\* the value a path leads to from a value: an object reference, a primitive
\* attribute, or nothing (a missing element, a path through no object)
ObjValue(n) == [kind |-> "obj", v |-> n]
PrimValue(x) == [kind |-> "prim", v |-> x]
NoValue == [kind |-> "missing", v |-> 0]

RootValue(root) == IF root.obj THEN ObjValue(root.v) ELSE [kind |-> root.tag, v |-> root.v]

RECURSIVE Deref(_, _)
Deref(val, path) ==
  IF path = <<>> THEN val
  ELSE IF val.kind # "obj" \/ val.v = 0 \/ Head(path).k = "Missing" THEN NoValue
  ELSE IF Head(path) = Seg("Attr", 0) THEN Deref(PrimValue(Heap[val.v].val), Tail(path))
  ELSE Bind(IF Head(path).k = "Attr" THEN Head(path).i ELSE Head(path).i + 1, LAMBDA k :
         IF k > Len(Heap[val.v].kids) THEN NoValue
         ELSE Deref(ObjValue(Heap[val.v].kids[k]), Tail(path)))

\* two values differ: in kind, as primitives, or as objects that a comparison
\* of their own (fresh maps, no tracing) finds unequal
Differ(a, b, mfv) ==
  IF a.kind # b.kind THEN TRUE
  ELSE IF a.kind # "obj" THEN a.v # b.v
  ELSE IF a.v = 0 \/ b.v = 0 THEN a.v # b.v
  ELSE Bind(EqualCall(Impl(FALSE, FALSE, FALSE, "none"), <<>>, AnyObj(a.v), AnyObj(b.v), mfv),
            LAMBDA s : s.eng.pc = "done" /\ ~s.eng.result)

\* two objects of which the maps of the call pair one with another node
MapConflict(a, b) ==
  /\ a.kind = "obj" /\ b.kind = "obj" /\ a.v # 0 /\ b.v # 0
  /\ \/ eng.equal_map_lhs[a.v] \notin {0, b.v}
     \/ eng.equal_map_rhs[b.v] \notin {0, a.v}

\* the same graph but for primitive attributes, down to depth d: the same
\* types and shapes, the same variables
RECURSIVE Alike(_, _, _)
Alike(l, r, d) ==
  IF l = 0 \/ r = 0 THEN l = r
  ELSE /\ Heap[l].type = Heap[r].type
       /\ Len(Heap[l].kids) = Len(Heap[r].kids)
       /\ Heap[l].type = "Var" => (l = r \/ Heap[l].val # Heap[r].val)
       /\ d = 0 \/ \A k \in 1..Len(Heap[l].kids) : Alike(Heap[l].kids[k], Heap[r].kids[k], d - 1)

\* the segment the reducer of a type gives its k-th object attribute
KidSeg(n, k) == IF Heap[n].type = "Arr" THEN Seg("Index", k - 1) ELSE Seg("Attr", k)

\* the paths of the primitive attributes in which two alike graphs differ
RECURSIVE LeafDiffs(_, _, _, _)
LeafDiffs(l, r, path, d) ==
  IF l = 0 \/ r = 0 THEN {}
  ELSE (IF Heap[l].val # Heap[r].val /\ Heap[l].type # "Arr"
          THEN {Append(path, Seg("Attr", 0))} ELSE {})
       \cup (IF d = 0 THEN {}
             ELSE UNION {LeafDiffs(Heap[l].kids[k], Heap[r].kids[k],
                                   Append(path, KidSeg(l, k)), d - 1) :
                           k \in 1..Len(Heap[l].kids)})

MaxDepth == 5

\* the current call compares two graphs that are the same but for one leaf
OneLeafApart ==
  /\ eng.root_lhs.obj /\ eng.root_rhs.obj
  /\ Alike(eng.root_lhs.v, eng.root_rhs.v, MaxDepth)
  /\ Cardinality(LeafDiffs(eng.root_lhs.v, eng.root_rhs.v, <<>>, MaxDepth)) = 1

TheLeaf == CHOOSE p \in LeafDiffs(eng.root_lhs.v, eng.root_rhs.v, <<>>, MaxDepth) : TRUE

\* the values the two paths of first_mismatch lead to
MismatchLhs == Deref(RootValue(eng.root_lhs), first_mismatch[1].lhs_path)
MismatchRhs == Deref(RootValue(eng.root_rhs), first_mismatch[1].rhs_path)

TracedFirstCall == FirstCall /\ eng.tracing /\ ~eng.assert_mode

ForceFails(ts) == SelectSeq(ts, LAMBDA t : t.force_fail)

PathLen(t) == Len(t.current_paths[1].lhs_path)

\* a traced call with fail deferral has returned false while a deferred
\* failure was on the stack or among the pending tasks
FailedWithDeferred ==
  /\ TracedReturn /\ eng.defer_fails /\ ~eng.result
  /\ ForceFails(eng.task_stack \o eng.pending_tasks) # <<>>

\* the length of the shortest path a waiting force-fail task carries: the
\* tasks one expansion enqueues carry paths one segment longer than its own
\* and lie below those of the expansions of its children
CoarsestLen ==
  CHOOSE m \in 0..Len(Heap) :
    /\ \E i \in DOMAIN ForceFails(eng.task_stack \o eng.pending_tasks) :
         PathLen(ForceFails(eng.task_stack \o eng.pending_tasks)[i]) = m
    /\ \A i \in DOMAIN ForceFails(eng.task_stack \o eng.pending_tasks) :
         PathLen(ForceFails(eng.task_stack \o eng.pending_tasks)[i]) >= m

\* the force-fail tasks of that expansion in the order of their enqueueing:
\* on the stack the order is reversed, among the pending tasks it is not
CoarsestDeferred ==
  Reverse(SelectSeq(ForceFails(eng.task_stack), LAMBDA t : PathLen(t) = CoarsestLen))
    \o SelectSeq(ForceFails(eng.pending_tasks), LAMBDA t : PathLen(t) = CoarsestLen)

\* the deferred failure enqueued first: the coarser mismatch
FirstDeferred == CoarsestDeferred[1]

\* the tasks the same expansion enqueued before it that are still there: on
\* the stack they lie above it, among the pending tasks before it
EarlierChildren ==
  {t \in {eng.task_stack[i] : i \in DOMAIN eng.task_stack}
            \cup {eng.pending_tasks[i] : i \in DOMAIN eng.pending_tasks} :
     /\ ~t.force_fail /\ PathLen(t) = CoarsestLen
     /\ \/ \E i, j \in DOMAIN eng.task_stack :
             eng.task_stack[i] = FirstDeferred /\ eng.task_stack[j] = t /\ j > i
        \/ \E i, j \in DOMAIN eng.pending_tasks :
             eng.pending_tasks[i] = FirstDeferred /\ eng.pending_tasks[j] = t /\ j < i}

\* a coarser mismatch has been deferred and one of the children enqueued
\* before it holds a mismatch of its own
CoarserAndFiner ==
  /\ FailedWithDeferred
  /\ \E t \in EarlierChildren : Differ(ObjValue(t.lhs), ObjValue(t.rhs), t.map_free_vars)

Butlast(p) == SubSeq(p, 1, Len(p) - 1)

\* the paths of the object whose reducer deferred it
DeferringPaths ==
  PathPair(Butlast(FirstDeferred.current_paths[1].lhs_path),
           Butlast(FirstDeferred.current_paths[1].rhs_path))

\* the recorded mismatch lies at or under an object attribute of the deferring
\* object other than the deferred one: inside an earlier-enqueued child
InsideEarlierChild ==
  Bind(first_mismatch[1].lhs_path, LAMBDA p :
    Bind(DeferringPaths.lhs_path, LAMBDA parent :
      /\ Len(p) > Len(parent) /\ IsPrefix(parent, p)
      /\ p[Len(parent) + 1] # Seg("Attr", 0)
      /\ p[Len(parent) + 1] # FirstDeferred.current_paths[1].lhs_path[Len(parent) + 1]))

\* the same call without fail deferral returns false and records the coarser
\* mismatch: the deferred failure's own paths or those of the deferring object
ImmediateRecordsCoarser ==
  Bind(EqualCall(Impl(FALSE, TRUE, FALSE, "none"), <<>>,
                 eng.root_lhs, eng.root_rhs, eng.map_free_vars), LAMBDA s :
    /\ s.eng.pc = "done" /\ ~s.eng.result
    /\ s.fm \in {FirstDeferred.current_paths, <<DeferringPaths>>})

\* C15: when a coarser mismatch (a deferred failure) and a finer mismatch
\* inside an earlier-enqueued child both exist, Equal with tracing and fail
\* deferral records the finer child path, and Equal with tracing and without
\* fail deferral records the coarser path.
C15_DeferredFinerImmediateCoarser ==
  CoarserAndFiner => (InsideEarlierChild /\ ImmediateRecordsCoarser)

\* Eager descent, the reference of C16: the comparisons of a reducer are made
\* in their order and an object comparison descends into the two objects at
\* once, with their whole subtrees, before the next comparison is made.  The
\* descent stops at the first mismatch it meets, which is the mismatch that
\* comes first in depth-first left-to-right order, and keeps its paths.
EagerState == [equal_map_lhs |-> NoMap, equal_map_rhs |-> NoMap, fm |-> <<>>, ge |-> FALSE]

\* deeper than every acyclic graph of the heap
MaxDescent == 8

TooDeep == <<"too deep">>

RECURSIVE EagerTask(_, _, _)
RECURSIVE EagerSteps(_, _, _, _)
RECURSIVE EagerStep(_, _, _, _)
EagerTask(s, t, d) ==
  IF d = 0 THEN [s EXCEPT !.fm = TooDeep]
  ELSE IF s.equal_map_lhs[t.lhs] # 0
    THEN (IF s.equal_map_lhs[t.lhs] = t.rhs THEN s ELSE [s EXCEPT !.fm = t.current_paths])
  ELSE IF s.equal_map_rhs[t.rhs] # 0 THEN [s EXCEPT !.fm = t.current_paths]
  ELSE Bind(EagerSteps([s EXCEPT !.ge = FALSE], t, ReducerSteps(eng, t.lhs, t.rhs), d),
            LAMBDA u :
         IF u.fm # <<>> THEN u
         ELSE IF u.ge
           THEN [u EXCEPT !.equal_map_lhs[t.lhs] = t.rhs, !.equal_map_rhs[t.rhs] = t.lhs,
                          !.ge = s.ge]
         ELSE [u EXCEPT !.ge = s.ge])

EagerSteps(s, t, steps, d) ==
  IF steps = <<>> \/ s.fm # <<>> THEN s
  ELSE EagerSteps(EagerStep(s, t, Head(steps), d), t, Tail(steps), d)

EagerStep(s, t, st, d) ==
  Bind(AttrPaths(t, st.lseg, st.rseg), LAMBDA paths :
    IF st.op \in {"prim", "size"}
      THEN (IF st.a = st.b THEN s ELSE [s EXCEPT !.fm = <<paths>>])
    ELSE IF st.op = "mark" THEN [s EXCEPT !.ge = TRUE]
    ELSE IF st.op = "free"
      THEN (IF st.a = st.b \/ t.map_free_vars THEN [s EXCEPT !.ge = TRUE]
            ELSE [s EXCEPT !.fm = t.current_paths])
    ELSE Bind(EarlyResult(s, st.a, st.b), LAMBDA early :
           IF early = "true" THEN s
           ELSE IF early = "false" THEN [s EXCEPT !.fm = <<paths>>]
           ELSE EagerTask(s, Task(st.a, st.b, t.map_free_vars \/ st.def, <<paths>>), d - 1)))

\* the first mismatch of the two graphs of the current call in depth-first
\* left-to-right order
EarliestMismatch ==
  EagerTask(EagerState,
            Task(eng.root_lhs.v, eng.root_rhs.v, eng.map_free_vars,
                 <<PathPair(RootPath, RootPath)>>),
            MaxDescent).fm

\* a traced call with fail deferral on two objects of one type has returned
\* false
DeferredFalse ==
  /\ TracedReturn /\ eng.defer_fails /\ ~eng.result
  /\ eng.root_lhs.obj /\ eng.root_rhs.obj /\ eng.root_lhs.tag = eng.root_rhs.tag

\* C16: with tracing and fail deferral, when Equal returns false the recorded
\* first_mismatch is the mismatch that comes first in depth-first
\* left-to-right order among the mismatches of the two graphs, also when a
\* deferred object mismatch is followed by a primitive mismatch in the same
\* reducer invocation.
C16_EarliestMismatch ==
  DeferredFalse => first_mismatch = EarliestMismatch

----------------------------------------------------------------------------
(***************************************************************************)
(* Further properties of the executable codec, under ExecSpec.              *)
(***************************************************************************)
\* the names HasFunction is asked about: those the tables use and two they
\* do not
NamesAsked == {NameMain, NameF, NameG, <<>>, <<102, 102>>}

\* C17: after LoadFromBinary func_map is the name-to-index mapping of
\* func_table: its keys are the names occurring in func_table, the entry at
\* index func_map[n] is named n for every key n, and HasFunction(n) holds
\* exactly when some entry of func_table is named n.
C17_FuncMapOfTable ==
  loaded.status = "ok" =>
    /\ DOMAIN loaded.exec.func_map =
         {loaded.exec.func_table[i].name : i \in DOMAIN loaded.exec.func_table}
    /\ \A n \in DOMAIN loaded.exec.func_map :
         /\ loaded.exec.func_map[n] + 1 \in DOMAIN loaded.exec.func_table
         /\ loaded.exec.func_table[loaded.exec.func_map[n] + 1].name = n
    /\ \A n \in NamesAsked :
         HasFunction(loaded.exec, n) <=>
           \E i \in DOMAIN loaded.exec.func_table : loaded.exec.func_table[i].name = n

\* a table that names a function twice has been loaded: the name is mapped to
\* the later of the two entries
C17_Witness ==
  /\ xpc = "loaded" /\ loaded.status = "ok"
  /\ loaded.exec.func_table = TwiceNamed
  /\ loaded.exec.func_map[NameF] = 2
  /\ HasFunction(loaded.exec, NameMain) /\ ~HasFunction(loaded.exec, NameG)

\* C18: every read of LoadFromBinary is checked and the load aborts at the
\* first read that fails: a truncated blob never yields an Executable.
C18_TruncatedRejected ==
  xpc = "cut" => loaded.status = "fatal"

\* the constant whose tag the blob holds replaced
Mistagged == CHOOSE k \in DOMAIN exec.constants : blob[TagOffset(exec, k) + 1] \in UnknownTags

\* what LoadConstantSection has appended to constants when it stops on the blob
ConstantsAppended(junk) ==
  LoadConstantSection(StringAfterRead(blob, 0),
                      Len(SaveHeader) + Len(SaveGlobalSection(exec)), junk).val

\* C19: a constant whose tag is none of the six supported makes the load fail
\* with the fatal error "Constant pool can only contain ..."; the constants
\* appended are those before it, none for the unknown tag, and no Executable
\* is returned.
C19_UnknownTagFatal ==
  xpc = "unknown" =>
    /\ loaded.status = "fatal"
    /\ loaded.section = "Constant pool can only contain"
    /\ loaded.exec = EmptyExec
    /\ \A junk \in {0, 1} :
         ConstantsAppended(junk) = SubSeq(exec.constants, 1, Mistagged - 1)

\* the second of two constants carried an unknown tag: the load has failed
\* after it had appended the first, a tensor
C19_Witness ==
  /\ xpc = "unknown" /\ loaded.status = "fatal"
  /\ Len(exec.constants) = 2 /\ Mistagged = 2
  /\ exec.constants[1].kind = "NDArray"
  /\ ConstantsAppended(0) = <<exec.constants[1]>>

\* the call of patch is out of bounds: its instruction number is not below
\* the number of instructions (a negative one included), or the word it names
\* is not inside instr_data
OutOfBounds ==
  \/ patch.i < 0
  \/ patch.i >= Len(patch.before.instr_offset)
  \/ patch.before.instr_offset[patch.i + 1] + patch.j < 0
  \/ patch.before.instr_offset[patch.i + 1] + patch.j >= Len(patch.before.instr_data)

\* C20: SetInstructionData(i, j, val) fails with a fatal precondition error and
\* leaves instr_offset and instr_data as they were whenever i is not below the
\* length of instr_offset or instr_offset[i] + j is not below the length of
\* instr_data, a negative i and a negative resulting index included.
C20_OutOfBoundsFatal ==
  (xpc = "patched" /\ OutOfBounds) =>
    /\ patch.status = "fatal"
    /\ exec.instr_offset = patch.before.instr_offset
    /\ exec.instr_data = patch.before.instr_data

\* a call on the last instruction of a program that names the word just past
\* the end of instr_data has failed and left the executable as it was
C20_Witness ==
  /\ xpc = "patched"
  /\ patch.status = "fatal"
  /\ patch.before.instr_data # <<>>
  /\ patch.i = 2 /\ patch.j = 2
  /\ patch.before.instr_offset[3] + 2 = Len(patch.before.instr_data)
  /\ exec = patch.before

\* the word of instr_data (counted from 0) the last successful call wrote
PatchedWord == patch.before.instr_offset[patch.i + 1] + patch.j

\* the word lies in the slice of instruction i: not before its first word, and
\* before the first word of every instruction that starts after it
InOwnSlice ==
  /\ patch.j >= 0
  /\ \A k \in DOMAIN patch.before.instr_offset :
       patch.before.instr_offset[k] > patch.before.instr_offset[patch.i + 1]
         => PatchedWord < patch.before.instr_offset[k]

\* C21: a successful SetInstructionData(i, j, val) makes exactly the word
\* instr_data[instr_offset[i] + j] become val, that word lies inside the slice
\* of instruction i, and instr_offset, every other word of instr_data,
\* func_table, func_map and constants are unchanged.
C21_WritesOwnWord ==
  (xpc = "patched" /\ patch.status = "ok") =>
    /\ exec = [patch.before EXCEPT !.instr_data[PatchedWord + 1] = patch.val]
    /\ PatchedWord + 1 \in DOMAIN patch.before.instr_data
    /\ InOwnSlice

----------------------------------------------------------------------------
(***************************************************************************)
(* Properties of the disassembly and the summary, under ExecSpec           *)
(***************************************************************************)
\* a line that opens a function ("@...") and a line of the instruction loop
\* (indented by two spaces)
IsHeaderLine(line) == line # <<>> /\ line[1] = Lit("@")
IsInstrLine(line) == line # <<>> /\ line[1] = Lit("  ")

\* the position of the k-th header line of a text
NthHeader(T, k) ==
  CHOOSE p \in DOMAIN T :
    IsHeaderLine(T[p]) /\ Cardinality({q \in 1..p : IsHeaderLine(T[q])}) = k

\* the lines after the k-th header line, up to the next one
BlockOf(T, k) ==
  LET n == Cardinality({q \in DOMAIN T : IsHeaderLine(T[q])})
  IN  SubSeq(T, NthHeader(T, k) + 1,
             IF k < n THEN NthHeader(T, k + 1) - 1 ELSE Len(T))

\* the mnemonic as AsText pads it to six characters
Mnemonic(op) ==
  IF op = "Call" THEN "call  " ELSE IF op = "Ret" THEN "ret   "
  ELSE IF op = "Goto" THEN "goto  " ELSE "If    "

\* instruction idx is read without leaving instr_offset and instr_data
Decodable(e, idx) ==
  \A w1, w2 \in WildReads : GetInstruction(e, idx, w1) = GetInstruction(e, idx, w2)

\* C22: the text AsText returns has one header line per entry of func_table,
\* in table order and carrying its name; the header of a PackedFunc or a
\* VMTIRFunc entry is a declaration line followed by no instruction line; the
\* header of a VMFunc entry is "@name:" followed by exactly
\* end_instr - start_instr instruction lines, the j-th of which starts (after
\* its indentation) with the mnemonic of the opcode of instruction
\* start_instr + j - 1.
C22_TextFollowsTable ==
  (out.op = "AsText" /\ out.status = "ok") =>
    LET T == out.lines
        e == out.of
    IN  /\ Cardinality({q \in DOMAIN T : IsHeaderLine(T[q])}) = Len(e.func_table)
        /\ \A p \in DOMAIN T : T[p] = <<>> \/ IsHeaderLine(T[p]) \/ IsInstrLine(T[p])
        /\ \A k \in DOMAIN e.func_table :
             LET gfunc == e.func_table[k]
                 head == T[NthHeader(T, k)]
                 body == SelectSeq(BlockOf(T, k), IsInstrLine)
             IN  /\ head[2] = Str(gfunc.name)
                 /\ gfunc.kind = kPackedFunc =>
                      head[Len(head)] = Lit(" packed_func;") /\ body = <<>>
                 /\ gfunc.kind = kVMTIRFunc =>
                      head[Len(head)] = Lit(" vm_tir_func;") /\ body = <<>>
                 /\ gfunc.kind = kVMFunc =>
                      /\ head = <<Lit("@"), Str(gfunc.name), Lit(":")>>
                      /\ Len(body) = gfunc.end_instr - gfunc.start_instr
                      /\ \A j \in DOMAIN body :
                           Decodable(e, gfunc.start_instr + j - 1) =>
                             body[j][2] =
                               Lit(Mnemonic(GetInstruction(e, gfunc.start_instr + j - 1,
                                                           "segv").op))

\* AsText has returned the text of the executable with a declared function
\* and a function of four instructions, one of each opcode
C22_Witness ==
  /\ out.op = "AsText" /\ out.status = "ok"
  /\ out.of = WithIf
  /\ Len(SelectSeq(out.lines, IsInstrLine)) = 4
  /\ {out.lines[p][2] : p \in {q \in DOMAIN out.lines : IsInstrLine(out.lines[q])}}
       = {Lit("call  "), Lit("ret   "), Lit("goto  "), Lit("If    ")}

\* the header lines AsPython writes for the VMFunc entries of a table, in order
IsPyHeader(line) == line # <<>> /\ line[1] = Lit("with ib.function(\"")
VMFuncNames(ft) ==
  LET vm == SelectSeq(ft, LAMBDA gfunc : gfunc.kind = kVMFunc)
  IN  [k \in DOMAIN vm |-> vm[k].name]

\* C23: AsPython writes the preamble "ib = rx.Builder()" and then output for
\* the VMFunc entries only; an entry of kind PackedFunc, VMTIRFunc or of any
\* other kind is skipped without error, so an executable without a VMFunc
\* entry yields the preamble alone.
C23_PythonSkipsOtherKinds ==
  out.op = "AsPython" =>
    /\ (\A k \in DOMAIN out.of.func_table : out.of.func_table[k].kind # kVMFunc) =>
         out.status = "ok" /\ out.lines = <<<<Lit("ib = rx.Builder()")>>>>
    /\ out.status = "ok" =>
         /\ out.lines[1] = <<Lit("ib = rx.Builder()")>>
         /\ LET heads == SelectSeq(out.lines, IsPyHeader)
            IN  [k \in DOMAIN heads |-> heads[k][2]]
                  = [k \in DOMAIN VMFuncNames(out.of.func_table) |->
                       Str(VMFuncNames(out.of.func_table)[k])]

\* the words of instruction idx: its opcode word, and the n-th word after it
OpWord(e, idx) == e.instr_data[e.instr_offset[idx + 1] + 1]
FieldWord(e, idx, n) == e.instr_data[e.instr_offset[idx + 1] + n + 1]

\* instruction idx exists and its opcode word and fixed fields (for a call,
\* its arguments too) lie inside instr_data
InsideCode(e, idx) ==
  /\ idx + 1 \in DOMAIN e.instr_offset
  /\ e.instr_offset[idx + 1] + 1 \in DOMAIN e.instr_data
  /\ LET offset == e.instr_offset[idx + 1]
         op == OpWord(e, idx)
     IN  /\ op = W(OpCall) =>
               /\ offset + 4 <= Len(e.instr_data)
               /\ FieldWord(e, idx, 3).lo >= 0
               /\ offset + 4 + FieldWord(e, idx, 3).lo <= Len(e.instr_data)
         /\ op \in {W(OpRet), W(OpGoto)} => offset + 2 <= Len(e.instr_data)
         /\ op = W(OpIf) => offset + 3 <= Len(e.instr_data)

\* the instruction numbers inside the range of some VMFunc entry
RangedInstrs(e) ==
  UNION { gfunc.start_instr..(gfunc.end_instr - 1) :
            gfunc \in {e.func_table[k] : k \in {j \in DOMAIN e.func_table :
                                                 e.func_table[j].kind = kVMFunc}} }

\* the opcode word of instruction idx is none of the four opcodes, or the
\* instruction is a call with an argument of none of the four kinds
BadInstr(e, idx) ==
  \/ OpWord(e, idx) \notin {W(OpCall), W(OpRet), W(OpGoto), W(OpIf)}
  \/ /\ OpWord(e, idx) = W(OpCall)
     /\ \E n \in 1..FieldWord(e, idx, 3).lo :
          FieldWord(e, idx, 3 + n).hi \notin {kRegister, kImmediate, kConstIdx, kFuncIdx}

\* C24: when AsText or AsPython meets, inside the range of a VMFunc entry, an
\* instruction whose opcode word is not Call, Ret, Goto or If, or a call with
\* an argument whose kind is not Register, Immediate, ConstIdx or FuncIdx,
\* the call returns no text; it ends with a fatal error (unless a read
\* outside the code, made for another instruction in range, has killed the
\* process before).
C24_UnknownInstrFatal ==
  ( /\ out.op \in {"AsText", "AsPython"}
    /\ \E idx \in RangedInstrs(out.of) : InsideCode(out.of, idx) /\ BadInstr(out.of, idx) )
  => /\ out.status # "ok" /\ out.lines = <<>>
     /\ (\A idx \in RangedInstrs(out.of) : InsideCode(out.of, idx)) => out.status = "fatal"

\* AsPython has failed on a program whose first call had the word of its
\* first argument overwritten by a word of kind 7
C24_Witness ==
  /\ out.op = "AsPython" /\ out.status = "fatal"
  /\ patch.status = "ok" /\ patch.i = 0 /\ patch.j = 4
  /\ OpWord(out.of, 0) = W(OpCall)
  /\ 0 \in RangedInstrs(out.of)
  /\ FieldWord(out.of, 0, 4).hi = 7

\* the six kinds of the constant pool
PoolKinds == {"NDArray", "Shape", "String", "Int", "Float", "DataType"}

\* C25: Stats returns a summary, without failing, for every executable whose
\* constants are of the six pool kinds, one returned by a successful
\* LoadFromBinary included; the summary reports the number of constants as
\* "Constant pool (# n)" and the size of the function table as "Globals (#m)".
C25_StatsSummary ==
  ( /\ out.op = "Stats"
    /\ \A k \in DOMAIN out.of.constants : out.of.constants[k].kind \in PoolKinds )
  => /\ out.status = "ok"
     /\ Len(out.lines) = 3
     /\ SubSeq(out.lines[2], 1, 3)
          = <<Lit("  Constant pool (# "), Num(W(Len(out.of.constants))), Lit("): [")>>
     /\ SubSeq(out.lines[3], 1, 3)
          = <<Lit("  Globals (#"), Num(W(Len(out.of.func_table))), Lit("): [")>>

----------------------------------------------------------------------------
(***************************************************************************)
(* Properties of NDArrayEqual, under TensorSpec                            *)
(***************************************************************************)
\* both tensors of the last call are on the CPU and contiguous
BothUsable ==
  /\ ndeq.lhs.device = kDLCPU /\ ndeq.rhs.device = kDLCPU
  /\ ndeq.lhs.contiguous /\ ndeq.rhs.contiguous

\* C26: for two contiguous CPU tensors NDArrayEqual returns true if and only
\* if they have the same rank, equal dimensions, equal dtype triples and,
\* when compare_data is asked for, identical data bytes; without compare_data
\* the data bytes have no influence.
C26_TensorEqualIff ==
  (ndeq.status # "none" /\ BothUsable) =>
    /\ ndeq.status = "ok"
    /\ ndeq.result <=>
         /\ Len(ndeq.lhs.shape) = Len(ndeq.rhs.shape)
         /\ ndeq.lhs.shape = ndeq.rhs.shape
         /\ ndeq.lhs.dtype = ndeq.rhs.dtype
         /\ ndeq.compare_data => ndeq.lhs.data = ndeq.rhs.data

\* two distinct tensors of equal shape and dtype whose bytes differ have
\* been found unequal with compare_data
C26_Witness ==
  /\ ndeq.status = "ok" /\ BothUsable /\ ~ndeq.result
  /\ ndeq.lhs.addr # ndeq.rhs.addr
  /\ ndeq.compare_data
  /\ ndeq.lhs.shape = ndeq.rhs.shape /\ ndeq.lhs.dtype = ndeq.rhs.dtype
  /\ ndeq.lhs.data # ndeq.rhs.data

\* C27: whenever one of the two tensors is not on the CPU or is not
\* contiguous, NDArrayEqual ends with a fatal precondition error and returns
\* neither true nor false, also when both arguments are one tensor and when
\* the ranks differ.
C27_UnusableFatal ==
  (ndeq.status # "none" /\ ~BothUsable) => ndeq.status = "fatal"

----------------------------------------------------------------------------
(***************************************************************************)
(* Further properties of the equality engine, under EqSpec                 *)
(***************************************************************************)
\* the types whose reducer calls MarkGraphNode (a Var through
\* FreeVarEqualImpl)
MarkingTypes == {"Box", "Var"}

\* the step expands the entry on top of the stack: its reducer runs
ExpansionStep ==
  /\ eng.pc = "run" /\ ~Top(eng).force_fail /\ ~Top(eng).children_expanded
  /\ eng'.pc \in {"run", "done"}

\* the step is a call of MarkGraphNode made while no reducer runs
OutsideMarkStep == eng.pc \in {"idle", "done"} /\ eng'.pc \in {"marked", "markfatal"}

\* C28: MarkGraphNode called by a running reducer sets graph_equal on the
\* entry on top of the task stack, which has children_expanded set, and on no
\* other entry; called at any other time it raises a fatal precondition
\* error and changes no entry.
C28_MarkGraphNode ==
  [][ /\ ExpansionStep =>
           LET n == Len(eng.task_stack)
           IN  /\ SubSeq(eng'.task_stack, 1, n - 1) = SubSeq(eng.task_stack, 1, n - 1)
               /\ eng'.task_stack[n].children_expanded
               /\ eng'.task_stack[n].graph_equal =>
                    /\ InvokesReducer(eng, Top(eng))
                    /\ Heap[Top(eng).lhs].type \in MarkingTypes
               /\ (InvokesReducer(eng, Top(eng)) /\ Heap[Top(eng).lhs].type = "Box")
                    => eng'.task_stack[n].graph_equal
               /\ \A k \in (n + 1)..Len(eng'.task_stack) :
                    ~eng'.task_stack[k].graph_equal
      /\ OutsideMarkStep =>
           eng'.pc = "markfatal" /\ eng'.task_stack = eng.task_stack ]_vars

\* the step is a call of the named method by the reducer of the top entry
ReducerCallStep(op) == ReducerEntered /\ call'.op = op /\ eng'.pc \in {"called", "callfatal"}

\* C29: GetCurrentObjectPaths and RecordMismatchPaths raise a fatal
\* precondition error when the reducer was made without tracing, and leave
\* first_mismatch as it was; with tracing GetCurrentObjectPaths returns the
\* path pair of the entry being expanded, and RecordMismatchPaths stores its
\* argument only if no mismatch has been recorded yet.
C29_TracingOnlyCalls ==
  [][ /\ (ReducerCallStep("GetCurrentObjectPaths") \/ ReducerCallStep("RecordMismatchPaths"))
           => IF eng.tracing
                THEN call'.status = "ok" /\ eng'.pc = "called"
                ELSE /\ call'.status = "fatal" /\ eng'.pc = "callfatal"
                     /\ first_mismatch' = first_mismatch
      /\ (ReducerCallStep("GetCurrentObjectPaths") /\ eng.tracing)
           => /\ call'.ret = Top(eng).current_paths /\ call'.ret # <<>>
              /\ first_mismatch' = first_mismatch
      /\ (ReducerCallStep("RecordMismatchPaths") /\ eng.tracing)
           => first_mismatch' = IF first_mismatch = <<>> THEN call'.arg
                                ELSE first_mismatch ]_vars

\* a traced reducer has called RecordMismatchPaths while the slot held an
\* earlier mismatch, which is still there
C29_Witness ==
  /\ call.op = "RecordMismatchPaths" /\ call.status = "ok"
  /\ first_mismatch # <<>> /\ first_mismatch # call.arg

\* the step is a reducer's call of SEqualReduce on two nodes of one type of
\* which the left is a key of equal_map_lhs or the right a key of
\* equal_map_rhs
MapDecidedStep ==
  /\ ReducerEntered /\ call'.op = "SEqualReduce"
  /\ call'.arg[1] # 0 /\ call'.arg[2] # 0
  /\ Heap[call'.arg[1]].type = Heap[call'.arg[2]].type
  /\ \/ eng.equal_map_lhs[call'.arg[1]] # 0
     \/ eng.equal_map_rhs[call'.arg[2]] # 0

\* what the maps say of the pair: the left node is mapped to the right node
MapVerdict(l, r) == eng.equal_map_lhs[l] # 0 /\ eng.equal_map_lhs[l] = r

\* the call of the step returned b
ReturnedBool(b) == call'.status = "ok" /\ call'.ret = <<b>>

\* whether a failure found by the call of the step is deferred
DefersFail == eng.tracing /\ eng.defer_fails /\ call'.arg[3] # <<>>

\* C30 as stated: on two defined nodes of one type SEqualReduce decides by the
\* maps first: with lhs a key of equal_map_lhs it returns true exactly when
\* equal_map_lhs[lhs] is rhs, with only rhs a key of equal_map_rhs it returns
\* false (a raise in assert mode is taken for false), and no task is enqueued
\* for comparison.
C30_MapsDecideAsStated ==
  [][MapDecidedStep =>
       /\ ReturnedBool(TRUE) <=> MapVerdict(call'.arg[1], call'.arg[2])
       /\ \A k \in 1..Len(eng'.pending_tasks) : eng'.pending_tasks[k].force_fail ]_vars

\* C30: on two defined nodes of one type, the left a key of equal_map_lhs or
\* the right a key of equal_map_rhs, SEqualReduce decides by the maps alone
\* and enqueues no task for comparison: when equal_map_lhs[lhs] is rhs it
\* returns true; otherwise (lhs mapped to another node, even when lhs and rhs
\* are one node, or lhs not a key) it reports the failure: with tracing, fail
\* deferral and defined paths it enqueues a force-fail task carrying the
\* current paths and returns true, else it returns false or, in assert mode,
\* raises.
C30_MapsDecide ==
  [][MapDecidedStep =>
       IF MapVerdict(call'.arg[1], call'.arg[2])
         THEN /\ ReturnedBool(TRUE) /\ eng'.pending_tasks = <<>>
              /\ first_mismatch' = first_mismatch
       ELSE IF DefersFail
         THEN /\ ReturnedBool(TRUE)
              /\ eng'.pending_tasks = <<ForceFailTask(call'.arg[3][1])>>
              /\ first_mismatch' = first_mismatch
       ELSE /\ eng'.pending_tasks = <<>>
            /\ IF eng.assert_mode THEN call'.status = "fatal" ELSE ReturnedBool(FALSE) ]_vars

\* a reducer compared a node with itself after the node had been mapped to
\* another node, and SEqualReduce returned false
C30_Witness ==
  /\ call.op = "SEqualReduce" /\ call.status = "ok" /\ call.ret = <<FALSE>>
  /\ call.arg[1] = call.arg[2]
  /\ eng.equal_map_lhs[call.arg[1]] \notin {0, call.arg[2]}
  /\ eng.pending_tasks = <<>>

\* the step is a reducer's call of SEqualReduce
SEqualReduceStep == ReducerEntered /\ call'.op = "SEqualReduce"

\* no early-result rule applies to the pair of the step
NoEarlyRule(l, r) ==
  /\ l # 0 /\ r # 0 /\ Heap[l].type = Heap[r].type
  /\ eng.equal_map_lhs[l] = 0 /\ eng.equal_map_rhs[r] = 0

\* an early-result rule gives true: both undefined, or lhs mapped to rhs
EarlyTrue(l, r) ==
  \/ l = 0 /\ r = 0
  \/ l # 0 /\ r # 0 /\ Heap[l].type = Heap[r].type /\ MapVerdict(l, r)

\* C31: when no early-result rule applies, SEqualReduce appends exactly one
\* task to pending_tasks, with the two nodes, the caller's map_free_vars and
\* paths, and the three flags false; it returns true and leaves the task
\* stack and both maps as they were.  When an early rule gives true nothing
\* is enqueued.
C31_EnqueuesOneTask ==
  [][SEqualReduceStep =>
       /\ NoEarlyRule(call'.arg[1], call'.arg[2]) =>
            /\ eng'.pending_tasks =
                 <<[lhs |-> call'.arg[1], rhs |-> call'.arg[2],
                    current_paths |-> call'.arg[3], map_free_vars |-> call'.arg[4],
                    children_expanded |-> FALSE, graph_equal |-> FALSE,
                    force_fail |-> FALSE]>>
            /\ ReturnedBool(TRUE)
            /\ eng'.task_stack = InReducer(eng).task_stack
            /\ eng'.equal_map_lhs = eng.equal_map_lhs
            /\ eng'.equal_map_rhs = eng.equal_map_rhs
            /\ first_mismatch' = first_mismatch
       /\ EarlyTrue(call'.arg[1], call'.arg[2]) =>
            /\ eng'.pending_tasks = <<>> /\ ReturnedBool(TRUE)
            /\ eng'.task_stack = InReducer(eng).task_stack
            /\ eng'.equal_map_lhs = eng.equal_map_lhs
            /\ eng'.equal_map_rhs = eng.equal_map_rhs ]_vars

\* a reducer whose own task has map_free_vars false called SEqualReduce with
\* map_free_vars true and traced paths on an unmapped pair, while the maps
\* already held a pair: the task is pending with the flag and the paths
C31_Witness ==
  /\ call.op = "SEqualReduce" /\ call.status = "ok" /\ call.ret = <<TRUE>>
  /\ call.arg[4] /\ call.arg[3] # <<>> /\ ~Top(eng).map_free_vars
  /\ eng.equal_map_lhs # NoMap
  /\ Len(eng.pending_tasks) = 1
  /\ ~eng.pending_tasks[1].force_fail /\ eng.pending_tasks[1].map_free_vars
  /\ eng.pending_tasks[1].current_paths = call.arg[3]

\* an early-result rule gives false for the pair of the step: one node
\* undefined, two types, lhs mapped to another node, or only rhs mapped
EarlyFalse(l, r) ==
  \/ (l = 0) # (r = 0)
  \/ /\ l # 0 /\ r # 0
     /\ \/ Heap[l].type # Heap[r].type
        \/ eng.equal_map_lhs[l] \notin {0, r}
        \/ eng.equal_map_lhs[l] = 0 /\ eng.equal_map_rhs[r] # 0

\* C32: a false early result of SEqualReduce becomes a deferred failure (one
\* force-fail task carrying current_paths appended to pending_tasks, true
\* returned) if and only if tracing is enabled, fail deferral is enabled and
\* current_paths is defined; in every other configuration, untraced with
\* defer_fails included, the call enqueues nothing and returns false (an
\* asserting handler raises the failure instead of returning it).
C32_DefersIffTracedDeferring ==
  [][(SEqualReduceStep /\ EarlyFalse(call'.arg[1], call'.arg[2])) =>
       /\ (ReturnedBool(TRUE) /\ eng'.pending_tasks # <<>>) <=> DefersFail
       /\ DefersFail => eng'.pending_tasks = <<ForceFailTask(call'.arg[3][1])>>
       /\ ~DefersFail =>
            /\ eng'.pending_tasks = <<>>
            /\ IF eng.assert_mode THEN call'.status = "fatal" ELSE ReturnedBool(FALSE) ]_vars

\* an untraced handler with fail deferral: SEqualReduce on a node and an
\* undefined reference has returned false and enqueued nothing
C32_Witness ==
  /\ call.op = "SEqualReduce" /\ call.status = "ok" /\ call.ret = <<FALSE>>
  /\ ~eng.tracing /\ eng.defer_fails
  /\ call.arg[1] # 0 /\ call.arg[2] = 0
  /\ eng.pending_tasks = <<>>

\* the step handles a force-fail task on top of the stack
ForceFailStep == eng.pc = "run" /\ Top(eng).force_fail /\ eng'.pc # "run"

\* a force-fail task waits in the task stack of the running call
ForceFailWaiting ==
  eng.pc = "run" /\ \E k \in 1..Len(eng.task_stack) : eng.task_stack[k].force_fail

\* the call has ended in a failure: false returned, or raised in assert mode
EndedInFailure == eng.pc \in {"done", "fatal"} /\ ~eng.result

\* what C33 says of the step that finds a force-fail task on top: the call
\* ends false there and then, no reducer is invoked, the maps are as they
\* were, and the task's paths are recorded exactly when the slot was empty
C33_EndsAtOnce ==
  [][ForceFailStep =>
       /\ eng'.pc \in {"done", "fatal"} /\ ~eng'.result
       /\ eng.assert_mode <=> eng'.pc = "fatal"
       /\ eng'.calls = eng.calls
       /\ eng'.equal_map_lhs = eng.equal_map_lhs
       /\ eng'.equal_map_rhs = eng.equal_map_rhs
       /\ first_mismatch' = IF first_mismatch = <<>> THEN Top(eng).current_paths
                            ELSE first_mismatch ]_vars

\* what C33 says of reaching: a force-fail task in the stack is reached, or
\* another failure ends the call before it
C33_Reached == ForceFailWaiting ~> EndedInFailure

EqualStep == eng.pc \in {"idle", "done"} /\ eng'.ncalls = eng.ncalls + 1

\* the roots of the call of the step have two type tags, or are two
\* primitives of one tag
RootsDecided ==
  \/ eng'.root_lhs.tag # eng'.root_rhs.tag
  \/ ~eng'.root_lhs.obj /\ ~eng'.root_rhs.obj

\* the verdict on such roots: one tag and the same 64 bits of value
RootsVerdict == eng'.root_lhs.tag = eng'.root_rhs.tag /\ eng'.root_lhs.v = eng'.root_rhs.v

\* C34: Equal on two roots with different type tags returns false, and on two
\* primitive roots of one tag returns true exactly when their values are
\* bitwise equal (a false result is raised by an asserting handler); no task
\* is created, no reducer is invoked and the maps stay empty; with tracing a
\* false result records (Root, Root) in the caller's empty first_mismatch.
C34_RootsDecided ==
  [][(EqualStep /\ RootsDecided) =>
       /\ eng'.pc = IF ~RootsVerdict /\ eng.assert_mode THEN "fatal" ELSE "done"
       /\ eng'.result <=> RootsVerdict
       /\ eng'.task_stack = <<>> /\ eng'.pending_tasks = <<>> /\ eng'.calls = <<>>
       /\ eng'.equal_map_lhs = NoMap /\ eng'.equal_map_rhs = NoMap
       /\ (eng.tracing /\ ~RootsVerdict /\ first_mismatch = <<>>)
            => first_mismatch' = <<PathPair(RootPath, RootPath)>>
       /\ (~eng.tracing \/ RootsVerdict) => first_mismatch' = first_mismatch ]_vars

\* a traced call on an object root and an integer root holding the same 64
\* bits has returned false and recorded the root paths, with nothing enqueued
C34_Witness ==
  /\ eng.pc = "done" /\ ~eng.result /\ eng.tracing /\ eng.ncalls = 1
  /\ eng.root_lhs.obj /\ ~eng.root_rhs.obj /\ eng.root_lhs.v = eng.root_rhs.v
  /\ first_mismatch = <<PathPair(RootPath, RootPath)>>
  /\ eng.task_stack = <<>> /\ eng.calls = <<>> /\ eng.equal_map_lhs = NoMap

\* the roots of the call of the step are two objects of one type
ObjectRoots ==
  eng'.root_lhs.obj /\ eng'.root_rhs.obj /\ eng'.root_lhs.tag = eng'.root_rhs.tag

\* the regular comparison task of the roots of the call of the step
RootTask ==
  Task(eng'.root_lhs.v, eng'.root_rhs.v, eng'.map_free_vars,
       IF eng.tracing THEN <<PathPair(RootPath, RootPath)>> ELSE <<>>)

\* C35: for two object roots of one type the call of SEqualReduce at the top
\* of a fresh Equal leaves exactly one task in pending_tasks, the regular
\* comparison task of the two roots and never a force-fail task: the
\* assertion on the size of pending_tasks does not fail, and the task is
\* moved to the stack.  (On a handler used before the same task is left, on
\* the stack or, when the assertion on allow_push_to_stack fails, pending.)
C35_OneRootTask ==
  [][(EqualStep /\ ObjectRoots) =>
       /\ eng.pc = "idle" =>
            /\ eng'.pc = "run" /\ eng'.error = ""
            /\ eng'.task_stack = <<RootTask>> /\ eng'.pending_tasks = <<>>
       /\ \/ eng'.pc = "run" /\ eng'.task_stack = <<RootTask>> /\ eng'.pending_tasks = <<>>
          \/ /\ eng'.pc = "fatal" /\ ~eng.allow_push_to_stack
             /\ eng'.task_stack = <<>> /\ eng'.pending_tasks = <<RootTask>> ]_vars

\* a fresh traced Equal on one node passed as both roots, with map_free_vars,
\* has put the one regular task of the roots on the stack
C35_Witness ==
  /\ eng.pc = "run" /\ eng.ncalls = 1 /\ eng.calls = <<>>
  /\ eng.tracing /\ eng.map_free_vars
  /\ eng.root_lhs = eng.root_rhs
  /\ Len(eng.task_stack) = 1 /\ ~Top(eng).force_fail /\ ~Top(eng).children_expanded
  /\ Top(eng).lhs = eng.root_lhs.v /\ Top(eng).rhs = eng.root_rhs.v
  /\ eng.pending_tasks = <<>>

\* the comparison of the k-th fields of the two nodes of a task of this type
\* is made through DefEqual
IsDefField(type, k) == type \in {"Let", "For"} /\ k = 1

\* the field of node n a path segment leads to
FieldAt(n, seg) == Heap[n].kids[IF seg.k = "Index" THEN seg.i + 1 ELSE seg.i]

\* whether the path from node n passes through a field compared by DefEqual
RECURSIVE UnderDef(_, _)
UnderDef(n, path) ==
  IF path = <<>> THEN FALSE
  ELSE IF Head(path).k = "Attr" /\ IsDefField(Heap[n].type, Head(path).i) THEN TRUE
  ELSE UnderDef(FieldAt(n, Head(path)), Tail(path))

\* the regular tasks an expansion step has pushed above the expanded entry
PushedTasks ==
  {k \in (Len(eng.task_stack) + 1)..Len(eng'.task_stack) : ~eng'.task_stack[k].force_fail}

\* position k of the new stack holds the task of the first fields of the
\* expanded entry's nodes
IsFirstField(k) ==
  /\ Heap[Top(eng).lhs].kids # <<>>
  /\ eng'.task_stack[k].lhs = Heap[Top(eng).lhs].kids[1]
  /\ eng'.task_stack[k].rhs = Heap[Top(eng).rhs].kids[1]

\* what C36 says of one expansion: a task enqueued through DefEqual carries
\* map_free_vars true, every other enqueued task the value of the task being
\* expanded
C36_Inherited ==
  [][ExpansionStep =>
       \A k \in PushedTasks :
         eng'.task_stack[k].map_free_vars =
           IF IsDefField(Heap[Top(eng).lhs].type, 1) /\ IsFirstField(k) THEN TRUE
           ELSE Top(eng).map_free_vars ]_vars

\* what C36 says of the subtree, for a traced call: a task has map_free_vars
\* true exactly when the call was made with it or the task's path passes
\* through a field compared by DefEqual
C36_Subtree ==
  (eng.pc = "run" /\ eng.tracing) =>
    \A k \in 1..Len(eng.task_stack) :
      ~eng.task_stack[k].force_fail =>
        (eng.task_stack[k].map_free_vars <=>
           (eng.map_free_vars
              \/ UnderDef(eng.root_lhs.v, eng.task_stack[k].current_paths[1].lhs_path)))

\* C36: map_free_vars is inherited down the traversal: a task enqueued
\* through the reducer's plain object comparison carries the value of the
\* task being expanded, a task enqueued through DefEqual carries true
\* whatever the parent's value, and so every task in the subtree below a
\* DefEqual comparison has map_free_vars true.
C36_MapFreeVarsInherited == C36_Inherited /\ []C36_Subtree

\* a call made without map_free_vars has reached a task two levels below a
\* DefEqual comparison, which carries map_free_vars true
C36_Witness ==
  /\ eng.pc = "run" /\ eng.tracing /\ ~eng.map_free_vars
  /\ Top(eng).map_free_vars /\ ~Top(eng).force_fail
  /\ Len(Top(eng).current_paths[1].lhs_path) = 2
  /\ Len(eng.task_stack) >= 3 /\ ~eng.task_stack[1].map_free_vars

\* a handler constructed like the one of the current state, never used
FreshLike(e) == Impl(e.assert_mode, e.tracing, e.defer_fails, e.ub)

\* the call of the step as a never-used handler of the same construction
\* makes it, the slot holding what it holds
AsOnFresh ==
  Equal(FreshLike(eng), first_mismatch, eng'.root_lhs, eng'.root_rhs, eng'.map_free_vars)

\* C37: equality state is scoped to one top-level call: after any Equal call
\* on a handler has returned, true or false and wherever the failure
\* occurred, a further Equal call on the same handler behaves exactly as on a
\* fresh one: it starts with empty stack, pending list and maps, with stack
\* pushes allowed, and its internal assertions do not fail.
C37_ScopedToOneCall ==
  [][(eng.pc = "done" /\ EqualStep) =>
       /\ [eng' EXCEPT !.ncalls = 1] = AsOnFresh.eng
       /\ first_mismatch' = AsOnFresh.fm
       /\ eng'.error # "InternalError" ]_vars

\* C38: in every state of an Equal call equal_map_lhs and equal_map_rhs are
\* inverse to each other: equal_map_lhs[l] = r exactly when
\* equal_map_rhs[r] = l, so that no lhs node has two images and no rhs node
\* is the image of two lhs nodes
InEqualCall == eng.pc \in {"run", "done", "fatal", "overflow"} /\ eng.ncalls >= 1

Mapped(m) == {n \in Nodes : m[n] # 0}

C38_MapsInverse ==
  InEqualCall =>
    /\ \A l \in Nodes, r \in Nodes : eng.equal_map_lhs[l] = r <=> eng.equal_map_rhs[r] = l
    /\ \A a \in Mapped(eng.equal_map_lhs), b \in Mapped(eng.equal_map_lhs) :
         eng.equal_map_lhs[a] = eng.equal_map_lhs[b] => a = b
    /\ \A a \in Mapped(eng.equal_map_rhs), b \in Mapped(eng.equal_map_rhs) :
         eng.equal_map_rhs[a] = eng.equal_map_rhs[b] => a = b

\* a variable is mapped to another one, and a task that would make the image
\* the image of a second variable waits on the stack
C38_Witness ==
  /\ eng.pc = "run" /\ eng.ncalls = 1
  /\ eng.equal_map_lhs[1] = 2 /\ eng.equal_map_rhs[2] = 1
  /\ ~Top(eng).children_expanded /\ Top(eng).lhs = 2 /\ Top(eng).rhs = 2

\* C39: the consistency assertion at the completion of a task never fails:
\* when an expanded task (l, r) is on top of the stack to be popped and l is
\* a key of equal_map_lhs, the mapped node is r; no completion step ends in
\* the internal error of the assertion
CompletionDue == eng.pc = "run" /\ ~Top(eng).force_fail /\ Top(eng).children_expanded

C39_Consistent ==
  CompletionDue =>
    /\ Top(eng).lhs \in Mapped(eng.equal_map_lhs) => eng.equal_map_lhs[Top(eng).lhs] = Top(eng).rhs
    /\ RunTasks(eng, first_mismatch).eng.error # "InternalError"

\* a task whose lhs was mapped by an earlier sibling is about to be popped
C39_Witness ==
  /\ CompletionDue /\ eng.ncalls = 1
  /\ Top(eng).lhs \in Mapped(eng.equal_map_lhs) /\ ~Top(eng).graph_equal
  /\ Len(eng.task_stack) > 1

\* the positions of the reducer history of the current call at which the
\* reducer was invoked on lhs node l or on rhs node r
Invocations(l, r) == {i \in DOMAIN eng.calls : eng.calls[i][1] = l \/ eng.calls[i][2] = r}

\* the pairs of graph nodes the reducer was invoked on: the reducer of such a
\* type marks the pair graph_equal
MarkedPairs == {eng.calls[i] : i \in {j \in DOMAIN eng.calls : Heap[eng.calls[j][1]].type \in MarkingTypes}}

\* a step of RunTasks that invokes a reducer: the history grows by the pair
\* of the entry on top
InvokingStep ==
  /\ eng.pc = "run" /\ eng'.ncalls = eng.ncalls
  /\ Len(eng'.calls) = Len(eng.calls) + 1

\* the first part of C40, which holds: the reducer is invoked once per task,
\* on an entry that was not expanded, which the step marks expanded for as
\* long as it stays on the stack
C40_OncePerTask ==
  [][/\ InvokingStep =>
          /\ ~Top(eng).force_fail /\ ~Top(eng).children_expanded
          /\ eng'.calls = Append(eng.calls, <<Top(eng).lhs, Top(eng).rhs>>)
          /\ eng'.task_stack[Len(eng.task_stack)].children_expanded
     /\ (eng.pc = "run" /\ eng'.pc = "run" /\ eng'.ncalls = eng.ncalls) =>
          /\ Len(eng'.calls) \in {Len(eng.calls), Len(eng.calls) + 1}
          /\ \A i \in 1..Len(eng.task_stack) :
               (i <= Len(eng'.task_stack) /\ eng.task_stack[i].children_expanded)
                 => eng'.task_stack[i].children_expanded ]_vars

\* the last part of C40, which holds: once a graph_equal pair (l, r) has
\* completed, l and r are settled from the maps; the reducer was invoked on
\* the pair once, and on no other pair with l on the left or r on the right
C40_AfterCompletion ==
  /\ InEqualCall =>
       \A l \in Mapped(eng.equal_map_lhs) :
         /\ Cardinality(Invocations(l, eng.equal_map_lhs[l])) <= 1
         /\ \A i \in Invocations(l, eng.equal_map_lhs[l]) : eng.calls[i] = <<l, eng.equal_map_lhs[l]>>

\* C40: within one Equal call the reducer is invoked at most once for any
\* pair (l, r) that was marked graph_equal, every later encounter of l or r
\* being resolved from the remap maps.
C40_OncePerMarkedPair ==
  InEqualCall =>
    \A i \in DOMAIN eng.calls, j \in DOMAIN eng.calls :
      (eng.calls[i] = eng.calls[j] /\ eng.calls[i] \in MarkedPairs) => i = j

====
